---- MODULE Spec2Model ----
(***************************************************************************)
(* A model of the orchestration core of the reasoning-agents framework:    *)
(* the A2A task handlers and POST /task endpoints of the workers           *)
(* (core/base_agent.py) and of the manager                                 *)
(* (agents/manager/manager_agent.py), and the manager's dispatch of a plan *)
(* to the worker endpoints.                                                *)
(*                                                                         *)
(* Texts are sequences of tokens, so that formatting (f"Error: {e}") and   *)
(* substring tests are computed rather than assumed.                       *)
(***************************************************************************)
EXTENDS Integers, Sequences, FiniteSets, TLC

VARIABLES
    \* ---- one task request being handled (handle_task or POST /task) ----
    hpc,      \* position of the handler
    via,      \* "handle_task" (the A2A method) or "endpoint" (the Flask route)
    kind,     \* "worker" (BaseAgent) or "manager" (LegalManagerAgent)
    req,      \* the inbound request: [id, shape, text]
    query,    \* the local variable query / text of the handler
    task,     \* the Task object handle_task mutates
    resp,     \* the JSON body the endpoint returns
    exc,      \* the message of the exception being handled
    result,   \* the local variable result
    procOut,  \* what the processing function did for this request
    audit,    \* events log_event appended for this request
    hist,     \* every state assigned to task.status, in order
    \* ---- one dispatch of a plan (_execute_plan) ----
    dpc,      \* position of _execute_plan
    plan,     \* the plan dict: [agents, parallel]
    calls,    \* the _call_worker coroutines of this dispatch
    order,    \* indices of calls in the order they finished
    dq,       \* the query this dispatch was given
    si,       \* the sequential loop's index into plan.agents
    results,  \* the list _execute_plan returns
    \* ---- one call of a manager step that uses the reasoning step ----
    rpc,          \* "r_idle", or which step has run
    rq,           \* the query the step was given
    llm,          \* how the reasoning step behaves during this call
    synIn,        \* the results list _synthesize_results was given
    complexity,   \* what _classify_complexity did
    madePlan,     \* what _plan_execution did
    final_answer, \* what _synthesize_results did
    invoked,      \* the prompts llm.ainvoke was called with, in order
    \* ---- one call of analyze_legal_query ----
    apc,          \* position of analyze_legal_query
    aexc,         \* the message of the exception its except branch caught
    aout,         \* what analyze_legal_query did
    faults,       \* which kinds of failure happened during this call
    \* ---- one worker process (BaseAgent) ----
    configured,   \* "unset", or whether the registry has the worker's tools
    mcp_client,   \* self._mcp_client: "None" or "client"
    tools,        \* self._tools
    tpc,          \* per thread: position in ensure_mcp_initialized
    tret,         \* per thread: what ensure_mcp_initialized returned
    built,        \* how many MultiServerMCPClient objects were made
    fetched,      \* how many get_tools() calls succeeded
    \* ---- one call of a worker's process_query ----
    wpc,          \* position of process_query / run_react_agent
    steps,        \* steps the ReAct graph has run
    wout,         \* what process_query did
    \* ---- the requests the orchestrator is handling at the same time ----
    creq          \* per request: the local variables of its handler thread

taskVars == <<hpc, via, kind, req, query, task, resp, exc, result, procOut, audit, hist>>
dispVars == <<dpc, plan, dq, calls, order, si, results>>
rsVars == <<rpc, rq, llm, synIn, complexity, madePlan, final_answer, invoked>>
pipeVars == <<apc, aexc, aout, faults>>
mcpVars == <<configured, mcp_client, tools, tpc, tret, built, fetched>>
wVars == <<wpc, steps, wout>>
workerVars == <<mcpVars, wVars>>
concVars == <<creq>>
vars == <<taskVars, dispVars, rsVars, pipeVars, workerVars, concVars>>

(***************************************************************************)
(* Texts                                                                   *)
(***************************************************************************)
NoText == <<>>

\* f"Error: {str(e)}"
ErrorText(m) == <<"Error: ">> \o m

\* Python's `m in t` for strings
Contains(t, m) ==
    \E i \in 1..(Len(t) - Len(m) + 1) : SubSeq(t, i, i + Len(m) - 1) = m

\* the query texts a caller sends
Queries == { <<"q1">>, <<"q2">> }

\* what a processing function may return
Answers == { <<"a1">>, <<"a1", "a2">>, NoText }

\* messages of the exceptions a processing function may raise
ExcMsgs == { <<"boom">> }

\* 'str' object has no attribute 'get'
AttributeErrorMsg == <<"no attribute get">>

\* OSError of a failed write to the events file
IOErrorMsg == <<"cannot write events">>

\* str(None)
NoneText == <<"None">>

(***************************************************************************)
(* Task protocol values                                                    *)
(***************************************************************************)
SUBMITTED      == "submitted"
PROCESSING     == "processing"
COMPLETED      == "completed"
INPUT_REQUIRED == "input_required"
FAILED         == "failed"

TerminalStates == {COMPLETED, INPUT_REQUIRED, FAILED}

\* TaskStatus(state=..., message={"role": "agent", "content": {"text": t}})
TaskStatus(s, t) == [state |-> s, message |-> t]

\* [{"parts": [{"type": "text", "text": t}]}]
TextArtifacts(t) == << [parts |-> << [type |-> "text", text |-> t] >>] >>

Kinds == {"worker", "manager"}
Vias  == {"handle_task", "endpoint"}

\* the shapes of an inbound message
MessageShapes ==
    { "message_absent",      \* no message (task.message is None / no "message" key)
      "message_not_dict",    \* message is a non-empty string
      "content_absent",      \* message has no content
      "content_null",        \* content is None
      "content_string",      \* content is a string
      "text_absent",         \* content is a dict without text
      "text" }               \* content is a dict with text

\* request bodies: POST /task may also carry a JSON value that is no object,
\* or an object whose "message" is null
Shapes(v) == IF v = "endpoint"
             THEN MessageShapes \cup {"body_not_object", "message_null"}
             ELSE MessageShapes

Ids == {"", "t1"}

Requests(v) ==
    { [id |-> i, shape |-> s, text |-> t] :
        i \in Ids, s \in Shapes(v), t \in Queries \cup {NoText} }

Returned(q) == [raised |-> FALSE, val |-> q]
Raised(m)   == [raised |-> TRUE,  val |-> m]

\* message = task.message or {}; content = message.get("content", {});
\* content.get("text", "") if isinstance(content, dict) else str(content)
_extract_query(r) ==
    CASE r.shape = "message_absent"   -> Returned(NoText)
      [] r.shape = "message_not_dict" -> Raised(AttributeErrorMsg)
      [] r.shape = "content_absent"   -> Returned(NoText)
      [] r.shape = "content_null"     -> Returned(NoneText)
      [] r.shape = "content_string"   -> Returned(r.text)
      [] r.shape = "text_absent"      -> Returned(NoText)
      [] r.shape = "text"             -> Returned(r.text)

\* data = request.get_json(); message = data.get('message', {}); ...
\* (data.get and message.get raise AttributeError on a value that is no dict;
\* unlike _extract_query, the route has no `or {}` for a null message)
EndpointExtractQuery(r) ==
    IF r.shape \in {"body_not_object", "message_null"}
    THEN Raised(AttributeErrorMsg)
    ELSE _extract_query(r)

\* the prompt-for-input texts
WorkerPrompt  == <<"Please provide a query">>
ManagerPrompt == <<"Please provide a legal query">>

\* what the processing function of a request may do
ProcOutcomes == {Returned(a) : a \in Answers} \cup {Raised(m) : m \in ExcMsgs}

NoOutcome == [kind |-> "none", val |-> NoText]
NoResp == [id |-> "", state |-> "none", message |-> NoText, artifacts |-> <<>>]
NewTask == [status |-> TaskStatus(SUBMITTED, NoText), artifacts |-> <<>>]
NoRequest == [id |-> "", shape |-> "message_absent", text |-> NoText]


\* the request in hand came in by way v to an agent of kind k
Handling(v, k) == via = v /\ kind = k

(***************************************************************************)
(* log_event: appends one event to the events file, or raises when the     *)
(* directory or the file cannot be written.                                *)
(***************************************************************************)
log_event(at, eventType, next, onError) ==
    /\ hpc = at
    /\ \/ /\ audit' = Append(audit, eventType)
          /\ hpc' = next
          /\ UNCHANGED exc
       \/ /\ exc' = IOErrorMsg
          /\ hpc' = onError
          /\ UNCHANGED audit
    /\ UNCHANGED <<via, kind, req, query, task, resp, result, procOut, hist>>
    /\ UNCHANGED <<dispVars, rsVars, pipeVars, workerVars, concVars>>

(***************************************************************************)
(* The steps of handle_task.  BaseAgent.handle_task and                    *)
(* LegalManagerAgent.handle_task run the same steps; they differ in the    *)
(* prompt, in the processing function and in the audit events the worker   *)
(* writes, which the two handlers below pass in.                           *)
(***************************************************************************)
\* task.status = TaskStatus(state=TaskState.PROCESSING)
SetProcessing(next) ==
    /\ hpc = "h_start"
    /\ task' = [task EXCEPT !.status = TaskStatus(PROCESSING, NoText)]
    /\ hist' = Append(hist, PROCESSING)
    /\ hpc' = next
    /\ UNCHANGED <<via, kind, req, query, resp, exc, result, procOut, audit>>
    /\ UNCHANGED <<dispVars, rsVars, pipeVars, workerVars, concVars>>

\* query = self._extract_query(task), inside the try
ExtractStep(next) ==
    /\ hpc = "h_extract"
    /\ LET e == _extract_query(req) IN
         IF e.raised
         THEN /\ exc' = e.val
              /\ hpc' = "h_except"
              /\ UNCHANGED query
         ELSE /\ query' = e.val
              /\ hpc' = next
              /\ UNCHANGED exc
    /\ UNCHANGED <<via, kind, req, task, resp, result, procOut, audit, hist>>
    /\ UNCHANGED <<dispVars, rsVars, pipeVars, workerVars, concVars>>

\* a handler that hands an empty query on to the processing function
CheckQueryPassesEmpty(prompt, next) ==
    /\ hpc = "h_check"
    /\ hpc' = next
    /\ UNCHANGED <<via, kind, req, query, task, resp, exc, result, procOut, audit, hist>>
    /\ UNCHANGED <<dispVars, rsVars, pipeVars, workerVars, concVars>>

\* if not query: task.status = TaskStatus(INPUT_REQUIRED, message=...); return task
CheckQuery(prompt, next) ==
    /\ hpc = "h_check"
    /\ IF query = NoText
       THEN /\ task' = [task EXCEPT !.status = TaskStatus(INPUT_REQUIRED, prompt)]
            /\ hist' = Append(hist, INPUT_REQUIRED)
            /\ hpc' = "returned"
       ELSE /\ hpc' = next
            /\ UNCHANGED <<task, hist>>
    /\ UNCHANGED <<via, kind, req, query, resp, exc, result, procOut, audit>>
    /\ UNCHANGED <<dispVars, rsVars, pipeVars, workerVars, concVars>>

\* result = await self.process_query(query)
ProcessStep(next) ==
    /\ hpc = "h_process"
    /\ \E o \in ProcOutcomes :
         /\ procOut' = [kind |-> IF o.raised THEN "raise" ELSE "return", val |-> o.val]
         /\ IF o.raised
            THEN /\ exc' = o.val
                 /\ hpc' = "h_except"
                 /\ UNCHANGED result
            ELSE /\ result' = o.val
                 /\ hpc' = next
                 /\ UNCHANGED exc
    /\ UNCHANGED <<via, kind, req, query, task, resp, audit, hist>>
    /\ UNCHANGED <<dispVars, rsVars, pipeVars, workerVars, concVars>>

\* the artifact built from the preview (result[:200]) instead of the result
HandleTaskArtifactsPreview(r) ==
    TextArtifacts(IF Len(r) > 1 THEN SubSeq(r, 1, 1) ELSE r)

\* task.artifacts = [{"parts": [{"type": "text", "text": result}]}]
HandleTaskArtifacts(r) == TextArtifacts(r)

\* task.artifacts = [...]; task.status = TaskStatus(state=TaskState.COMPLETED)
BuildStep(next) ==
    /\ hpc = "h_build"
    /\ task' = [task EXCEPT !.artifacts = HandleTaskArtifacts(result),
                            !.status = TaskStatus(COMPLETED, NoText)]
    /\ hist' = Append(hist, COMPLETED)
    /\ hpc' = next
    /\ UNCHANGED <<via, kind, req, query, resp, exc, result, procOut, audit>>
    /\ UNCHANGED <<dispVars, rsVars, pipeVars, workerVars, concVars>>

\* except Exception as e: task.status = TaskStatus(FAILED, message="Error: ...")
ExceptStep(next) ==
    /\ hpc = "h_except"
    /\ task' = [task EXCEPT !.status = TaskStatus(FAILED, ErrorText(exc))]
    /\ hist' = Append(hist, FAILED)
    /\ hpc' = next
    /\ UNCHANGED <<via, kind, req, query, resp, exc, result, procOut, audit>>
    /\ UNCHANGED <<dispVars, rsVars, pipeVars, workerVars, concVars>>

\* BaseAgent.handle_task
BaseHandleTask ==
    \/ Handling("handle_task", "worker") /\ SetProcessing("h_extract")
    \/ Handling("handle_task", "worker") /\ ExtractStep("h_check")
    \/ Handling("handle_task", "worker") /\ CheckQuery(WorkerPrompt, "h_log_received")
    \/ Handling("handle_task", "worker")
          /\ log_event("h_log_received", "TASK_RECEIVED", "h_process", "h_except")
    \/ Handling("handle_task", "worker") /\ ProcessStep("h_build")
    \/ Handling("handle_task", "worker") /\ BuildStep("h_log_completed")
    \/ Handling("handle_task", "worker")
          /\ log_event("h_log_completed", "TASK_COMPLETED", "returned", "h_except")
    \/ Handling("handle_task", "worker") /\ ExceptStep("h_log_error")
    \/ Handling("handle_task", "worker")
          /\ log_event("h_log_error", "TASK_ERROR", "returned", "escaped")

\* LegalManagerAgent.handle_task
ManagerHandleTask ==
    \/ Handling("handle_task", "manager") /\ SetProcessing("h_extract")
    \/ Handling("handle_task", "manager") /\ ExtractStep("h_check")
    \/ Handling("handle_task", "manager") /\ CheckQuery(ManagerPrompt, "h_process")
    \/ Handling("handle_task", "manager") /\ ProcessStep("h_build")
    \/ Handling("handle_task", "manager") /\ BuildStep("returned")
    \/ Handling("handle_task", "manager") /\ ExceptStep("returned")

\* the Task a route's JSON message is for handle_task: a null message is
\* a Task without message
AsTaskMessage(r) ==
    IF r.shape = "message_null" THEN [r EXCEPT !.shape = "message_absent"] ELSE r

\* the state and the artifacts handle_task ends with for message r when the
\* processing function does o (and the audit events are written)
HandleTaskOutcome(r, o) ==
    LET e == _extract_query(r) IN
      IF e.raised THEN [state |-> FAILED, artifacts |-> <<>>]
      ELSE IF e.val = NoText THEN [state |-> INPUT_REQUIRED, artifacts |-> <<>>]
      ELSE IF o.raised THEN [state |-> FAILED, artifacts |-> <<>>]
      ELSE [state |-> COMPLETED, artifacts |-> HandleTaskArtifacts(o.val)]

(***************************************************************************)
(* The POST /task route.  It does not call handle_task: it extracts the    *)
(* query, runs the processing function and builds the JSON body itself.    *)
(***************************************************************************)
\* the route without its try/except: the exception leaves the route
EndpointNoExcept == "escaped"

\* where an exception raised inside the route's try block goes:
\* `except Exception as e` takes every one of them
EndpointExceptPc == "e_except"

EndpointExtract ==
    /\ hpc = "e_parse"
    /\ LET e == EndpointExtractQuery(req) IN
         IF e.raised
         THEN /\ exc' = e.val
              /\ hpc' = EndpointExceptPc
              /\ UNCHANGED query
         ELSE /\ query' = e.val
              /\ hpc' = "e_check"
              /\ UNCHANGED exc
    /\ UNCHANGED <<via, kind, req, task, resp, result, procOut, audit, hist>>
    /\ UNCHANGED <<dispVars, rsVars, pipeVars, workerVars, concVars>>

\* if not query: return jsonify({"id": ..., "status": {"state": "input_required"},
\*                               "artifacts": [{"parts": [{... prompt ...}]}]})
EndpointCheck(prompt) ==
    /\ hpc = "e_check"
    /\ IF query = NoText
       THEN /\ resp' = [id |-> req.id, state |-> INPUT_REQUIRED,
                        message |-> NoText, artifacts |-> TextArtifacts(prompt)]
            /\ hpc' = "responded"
       ELSE /\ hpc' = "e_process"
            /\ UNCHANGED resp
    /\ UNCHANGED <<via, kind, req, query, task, exc, result, procOut, audit, hist>>
    /\ UNCHANGED <<dispVars, rsVars, pipeVars, workerVars, concVars>>

\* result = loop.run_until_complete(agent_instance.process_query(query))
EndpointProcess ==
    /\ hpc = "e_process"
    /\ \E o \in ProcOutcomes :
         /\ procOut' = [kind |-> IF o.raised THEN "raise" ELSE "return", val |-> o.val]
         /\ IF o.raised
            THEN /\ exc' = o.val
                 /\ hpc' = EndpointExceptPc
                 /\ UNCHANGED result
            ELSE /\ result' = o.val
                 /\ hpc' = "e_build"
                 /\ UNCHANGED exc
    /\ UNCHANGED <<via, kind, req, query, task, resp, audit, hist>>
    /\ UNCHANGED <<dispVars, rsVars, pipeVars, workerVars, concVars>>

\* return jsonify({"id": data.get('id', ''), "status": {"state": "completed"}, ...})
EndpointBuild ==
    /\ hpc = "e_build"
    /\ resp' = [id |-> req.id, state |-> COMPLETED,
                message |-> NoText, artifacts |-> TextArtifacts(result)]
    /\ hpc' = "responded"
    /\ UNCHANGED <<via, kind, req, query, task, exc, result, procOut, audit, hist>>
    /\ UNCHANGED <<dispVars, rsVars, pipeVars, workerVars, concVars>>

\* except Exception as e: return jsonify({"id": "", "status": {"state": "failed"},
\*                                        "artifacts": [{... f"Error: {str(e)}" ...}]})
EndpointExcept ==
    /\ hpc = "e_except"
    /\ resp' = [id |-> "", state |-> FAILED,
                message |-> NoText, artifacts |-> TextArtifacts(ErrorText(exc))]
    /\ hpc' = "responded"
    /\ UNCHANGED <<via, kind, req, query, task, exc, result, procOut, audit, hist>>
    /\ UNCHANGED <<dispVars, rsVars, pipeVars, workerVars, concVars>>

\* BaseAgent.run.handle_task_endpoint
BaseTaskEndpoint ==
    \/ Handling("endpoint", "worker") /\ EndpointExtract
    \/ Handling("endpoint", "worker") /\ EndpointCheck(WorkerPrompt)
    \/ Handling("endpoint", "worker") /\ EndpointProcess
    \/ Handling("endpoint", "worker") /\ EndpointBuild
    \/ Handling("endpoint", "worker") /\ EndpointExcept

\* run_manager_server.handle_task_endpoint
ManagerTaskEndpoint ==
    \/ Handling("endpoint", "manager") /\ EndpointExtract
    \/ Handling("endpoint", "manager") /\ EndpointCheck(ManagerPrompt)
    \/ Handling("endpoint", "manager") /\ EndpointProcess
    \/ Handling("endpoint", "manager") /\ EndpointBuild
    \/ Handling("endpoint", "manager") /\ EndpointExcept

\* a request is over: the task was returned, the body was sent, or the
\* exception left the handler
Finished == hpc \in {"returned", "responded", "escaped"}

\* the next request arrives; each request gets a Task of its own
Receive ==
    /\ hpc \in {"idle", "returned", "responded", "escaped"}
    /\ \E v \in Vias, k \in Kinds :
         \E r \in Requests(v) :
            /\ via' = v
            /\ kind' = k
            /\ req' = r
            /\ hpc' = IF v = "handle_task" THEN "h_start" ELSE "e_parse"
    /\ task' = NewTask
    /\ resp' = NoResp
    /\ query' = NoText
    /\ exc' = NoText
    /\ result' = NoText
    /\ procOut' = NoOutcome
    /\ audit' = <<>>
    /\ hist' = <<>>
    /\ UNCHANGED <<dispVars, rsVars, pipeVars, workerVars, concVars>>


(***************************************************************************)
(* Dispatch: LegalManagerAgent._execute_plan and _call_worker              *)
(***************************************************************************)
Worker1Url == "http://localhost:8101"
Worker2Url == "http://localhost:8102"

\* agent_map of _execute_plan
agent_map ==
    [ worker_agent_1   |-> Worker1Url,
      worker_agent_2   |-> Worker2Url,
      clause_agent     |-> Worker1Url,
      compliance_agent |-> Worker2Url ]

\* the identifiers a plan may name: the keys of agent_map and one that is not
PlanIdents == (DOMAIN agent_map) \cup {"unknown_agent"}

\* the longest agents list of a plan
MaxAgents == 2

RECURSIVE SeqsUpTo(_, _)
SeqsUpTo(S, n) ==
    IF n = 0 THEN { <<>> }
    ELSE LET shorter == SeqsUpTo(S, n - 1) IN
         shorter \cup { Append(p, a) : p \in { x \in shorter : Len(x) = n - 1 }, a \in S }

Plans == { [agents |-> a, parallel |-> p] :
             a \in SeqsUpTo(PlanIdents, MaxAgents), p \in BOOLEAN }

\* a lookup that knows the registry names only, not their aliases
ResolvedRegistryNamesOnly(agents) ==
    SelectSeq(agents, LAMBDA a : a \in {"worker_agent_1", "worker_agent_2"})

\* [... for a in agents_to_call if a in agent_map]
Resolved(agents) == SelectSeq(agents, LAMBDA a : a \in DOMAIN agent_map)

\* the JSON bodies a worker endpoint answers with
WorkerBodies ==
    { [id |-> "", state |-> COMPLETED, message |-> NoText,
       artifacts |-> TextArtifacts(<<"a1">>)],
      [id |-> "", state |-> FAILED, message |-> NoText,
       artifacts |-> TextArtifacts(ErrorText(<<"boom">>))] }

NoBody == [id |-> "", state |-> "none", message |-> NoText, artifacts |-> <<>>]

\* what one round trip to a worker may bring back before the timeout
WorkerReplies ==
    { [http |-> 200, json |-> TRUE, body |-> b] : b \in WorkerBodies }
      \cup { [http |-> 200, json |-> TRUE,  body |-> NoBody],   \* the JSON body {}
             [http |-> 200, json |-> FALSE, body |-> NoBody],   \* body is no JSON
             [http |-> 500, json |-> TRUE,  body |-> NoBody],   \* non-OK status
             [http |-> 0,   json |-> FALSE, body |-> NoBody] }  \* transport error

\* no reply has come back
NoReply == [http |-> -1, json |-> FALSE, body |-> NoBody]

\* the dict _call_worker returns
CallResult(ok, body, err, url) ==
    [success |-> ok, result |-> body, error |-> err, agent_url |-> url]

NoResult == CallResult(FALSE, NoBody, "pending", "")

\* _call_worker that does not look at response.status
call_worker_any_status(url, reply) ==
    IF reply.http = 0 THEN CallResult(FALSE, NoBody, "ClientConnectorError", url)
    ELSE IF reply.json
         THEN CallResult(TRUE, reply.body, "", url)
         ELSE CallResult(FALSE, NoBody, "ContentTypeError", url)

\* _call_worker once the round trip is over
call_worker_result(url, reply) ==
    IF reply.http = 0 THEN CallResult(FALSE, NoBody, "ClientConnectorError", url)
    ELSE IF reply.http = 200
         THEN IF reply.json
              THEN CallResult(TRUE, reply.body, "", url)
              ELSE CallResult(FALSE, NoBody, "ContentTypeError", url)
         ELSE CallResult(FALSE, NoBody, "HTTP 500", url)

\* a timeout reported as a success with what had been read so far
TimeoutAsPartialSuccess(url) ==
    CallResult(TRUE, [id |-> "", state |-> COMPLETED, message |-> NoText,
                      artifacts |-> TextArtifacts(<<"partial">>)], "", url)

\* except asyncio.TimeoutError
TimeoutResult(url) == CallResult(FALSE, NoBody, "Timeout", url)

\* a call that is sent the query together with what earlier calls found
NewCallWithFindings(agent) ==
    [ agent  |-> agent,
      url    |-> agent_map[agent],
      sent   |-> IF results = <<>> THEN dq ELSE dq \o <<"earlier findings">>,
      st     |-> "inflight",
      worker |-> "pending",
      reply  |-> NoReply,
      res    |-> NoResult ]

\* a _call_worker coroutine that has sent its POST
NewCall(agent) ==
    [ agent  |-> agent,              \* the plan identifier it was created for
      url    |-> agent_map[agent],
      sent   |-> dq,                 \* {"message": {"content": {"text": query}}}
      st     |-> "inflight",
      worker |-> "pending",          \* what this call's own round trip ended with
      reply  |-> NoReply,            \* the reply session.post came back with
      res    |-> NoResult ]

\* a call without a timeout: nothing ends a call the worker does not answer
CancelNothing(i) == {}

\* one timeout around the whole gather: its expiry ends every call in flight
CancelAllInFlight(i) == DOMAIN calls

\* the calls a timeout expiring in call i cancels:
\* timeout=aiohttp.ClientTimeout(total=timeout) belongs to the one session.post
CancelScope(i) == {i}

RECURSIVE SetToSeq(_)
SetToSeq(S) ==
    IF S = {} THEN <<>>
    ELSE LET m == CHOOSE x \in S : \A y \in S : x <= y
         IN <<m>> \o SetToSeq(S \ {m})

\* the worker of call i answers (or the connection fails) before the timeout
WorkerReplyArrives(i) ==
    /\ calls[i].st = "inflight"
    /\ \E reply \in WorkerReplies :
         calls' = [calls EXCEPT
                     ![i].st = "done",
                     ![i].worker = IF reply.http = 200 /\ reply.json THEN "ok" ELSE "failed",
                     ![i].reply = reply,
                     ![i].res = call_worker_result(calls[i].url, reply)]
    /\ order' = Append(order, i)
    /\ UNCHANGED <<dpc, plan, dq, si, results>>
    /\ UNCHANGED <<taskVars, rsVars, pipeVars, workerVars, concVars>>

\* the worker of call i does not answer within the timeout
TimeoutExpires(i) ==
    /\ calls[i].st = "inflight"
    /\ LET hit == { j \in CancelScope(i) : j \in DOMAIN calls /\ calls[j].st = "inflight" } IN
         /\ calls' = [j \in DOMAIN calls |->
                        IF j \in hit
                        THEN [calls[j] EXCEPT
                                !.st = "done",
                                !.worker = IF j = i THEN "no_answer" ELSE @,
                                !.res = TimeoutResult(calls[j].url)]
                        ELSE calls[j]]
         /\ order' = order \o SetToSeq(hit)
    /\ UNCHANGED <<dpc, plan, dq, si, results>>
    /\ UNCHANGED <<taskVars, rsVars, pipeVars, workerVars, concVars>>

\* results collected as the calls finish (asyncio.as_completed)
GatherInCompletionOrder(cs, finished) == [i \in DOMAIN cs |-> cs[finished[i]].res]

\* results of asyncio.gather(*tasks, return_exceptions=True): one per awaitable,
\* in the order of the awaitables
GatherResults(cs, finished) == [i \in DOMAIN cs |-> cs[i].res]

\* agents_to_call = plan.get("agents", []); is_parallel = plan.get("parallel", False)
ExecutePlanStart ==
    /\ dpc = "d_start"
    /\ IF plan.parallel
       THEN /\ calls' = [i \in 1..Len(Resolved(plan.agents)) |->
                           NewCall(Resolved(plan.agents)[i])]
            /\ dpc' = "d_gather"
       ELSE /\ calls' = <<>>
            /\ dpc' = "d_loop"
    /\ si' = 1
    /\ results' = <<>>
    /\ order' = <<>>
    /\ UNCHANGED <<plan, dq>>
    /\ UNCHANGED <<taskVars, rsVars, pipeVars, workerVars, concVars>>

\* a call of the parallel branch finishes, in any order
ParallelCallFinishes ==
    /\ dpc = "d_gather"
    /\ \E i \in DOMAIN calls : WorkerReplyArrives(i) \/ TimeoutExpires(i)

\* results = await asyncio.gather(...); return [...]
GatherReturns ==
    /\ dpc = "d_gather"
    /\ \A i \in DOMAIN calls : calls[i].st = "done"
    /\ results' = GatherResults(calls, order)
    /\ dpc' = "d_done"
    /\ UNCHANGED <<plan, dq, calls, order, si>>
    /\ UNCHANGED <<taskVars, rsVars, pipeVars, workerVars, concVars>>

\* for agent_name in agents_to_call: if agent_name in agent_map: ...
SequentialLoop ==
    /\ dpc = "d_loop"
    /\ IF si > Len(plan.agents)
       THEN /\ dpc' = "d_done"
            /\ UNCHANGED <<calls, si>>
       ELSE IF plan.agents[si] \in DOMAIN agent_map
            THEN /\ calls' = Append(calls, NewCall(plan.agents[si]))
                 /\ dpc' = "d_await"
                 /\ UNCHANGED si
            ELSE /\ si' = si + 1
                 /\ UNCHANGED <<calls, dpc>>
    /\ UNCHANGED <<plan, dq, order, results>>
    /\ UNCHANGED <<taskVars, rsVars, pipeVars, workerVars, concVars>>

\* result = await self._call_worker(agent_map[agent_name], query)
SequentialCallFinishes ==
    /\ dpc = "d_await"
    /\ WorkerReplyArrives(Len(calls)) \/ TimeoutExpires(Len(calls))

\* a loop that gives up at the first failed call
StopAtFirstFailure(r) == IF r.success THEN "d_loop" ELSE "d_done"

\* where the sequential loop goes after a call: on to the next agent
AfterSequentialCall(r) == "d_loop"

\* results.append(self._call_worker(...)) without awaiting the call
SequentialAppendNoAwait ==
    /\ dpc = "d_await"
    /\ results' = Append(results, calls[Len(calls)].res)
    /\ si' = si + 1
    /\ dpc' = "d_loop"
    /\ UNCHANGED <<plan, dq, calls, order>>
    /\ UNCHANGED <<taskVars, rsVars, pipeVars, workerVars, concVars>>

\* results.append(result)
SequentialAppend ==
    /\ dpc = "d_await"
    /\ calls[Len(calls)].st = "done"
    /\ results' = Append(results, calls[Len(calls)].res)
    /\ si' = si + 1
    /\ dpc' = AfterSequentialCall(calls[Len(calls)].res)
    /\ UNCHANGED <<plan, dq, calls, order>>
    /\ UNCHANGED <<taskVars, rsVars, pipeVars, workerVars, concVars>>

\* LegalManagerAgent._execute_plan
execute_plan ==
    \/ ExecutePlanStart
    \/ ParallelCallFinishes
    \/ GatherReturns
    \/ SequentialLoop
    \/ SequentialCallFinishes
    \/ SequentialAppend

\* results = await self._execute_plan(query, plan), for some query and plan;
\* a dispatch shares no state with the dispatches before it, so each one is
\* followed from the idle state
Dispatch ==
    /\ dpc = "d_idle"
    /\ \E p \in Plans, q \in Queries :
         /\ plan' = p
         /\ dq' = q
    /\ dpc' = "d_start"
    /\ calls' = <<>>
    /\ order' = <<>>
    /\ si' = 1
    /\ results' = <<>>
    /\ UNCHANGED <<taskVars, rsVars, pipeVars, workerVars, concVars>>

(***************************************************************************)
(* The reasoning step: LegalManagerAgent._create_llm and llm.ainvoke       *)
(***************************************************************************)
\* how the backend behaves during one call of a manager step:
\*   create  - ChatOpenAI(**params) returns a client ("ok") or raises
\*   invoke  - llm.ainvoke returns a response whose content is a str ("ok"),
\*             returns one whose content is no str ("no_text"), or raises
\*   content - response.content
Backend(c, i, t) == [create |-> c, invoke |-> i, content |-> t]

NoBackend == Backend("none", "none", NoText)

\* the backends that give no response text, whatever the step
FailingBackends ==
    { Backend("raises", "none", NoText),
      Backend("ok", "raises", NoText),
      Backend("ok", "no_text", NoText) }

\* the backends answering with a text of T
AnsweringBackends(T) == { Backend("ok", "ok", t) : t \in T }

\* str.strip() on a text held as a sequence of pieces
WhiteSpace == {" ", "\n"}

RECURSIVE StripLeft(_)
StripLeft(t) ==
    IF t # <<>> /\ Head(t) \in WhiteSpace THEN StripLeft(Tail(t)) ELSE t

RECURSIVE StripRight(_)
StripRight(t) ==
    IF t # <<>> /\ t[Len(t)] \in WhiteSpace
    THEN StripRight(SubSeq(t, 1, Len(t) - 1)) ELSE t

Strip(t) == StripRight(StripLeft(t))

(***************************************************************************)
(* Classifier: LegalManagerAgent._classify_complexity                      *)
(***************************************************************************)
\* QueryComplexity
SIMPLE  == "simple"
COMPLEX == "complex"

\* the letters of the classifier's texts, lower case and upper case
CasePairs ==
    { <<"c", "C">>, <<"o", "O">>, <<"m", "M">>, <<"p", "P">>, <<"l", "L">>,
      <<"e", "E">>, <<"x", "X">>, <<"s", "S">>, <<"i", "I">>, <<"n", "N">>,
      <<"t", "T">> }

\* str.upper(), character by character
UpperChar(ch) ==
    IF \E cp \in CasePairs : cp[1] = ch
    THEN (CHOOSE cp \in CasePairs : cp[1] = ch)[2]
    ELSE ch

Upper(t) == [i \in DOMAIN t |-> UpperChar(t[i])]

\* "COMPLEX"
ComplexWord == <<"C", "O", "M", "P", "L", "E", "X">>

\* every way of writing a word in lower and upper case letters
RECURSIVE CaseVariants(_)
CaseVariants(w) ==
    IF w = <<>> THEN { <<>> }
    ELSE { <<ch>> \o rest :
             ch \in { Head(w) } \cup { cp[1] : cp \in { x \in CasePairs : x[2] = Head(w) } },
             rest \in CaseVariants(Tail(w)) }

\* the texts a reasoning step answers the classification prompt with:
\* the word in any mix of cases, words that are not it, inside other text
ClassifyWords ==
    CaseVariants(ComplexWord)
      \cup { <<"S", "I", "M", "P", "L", "E">>, <<"s", "i", "m", "p", "l", "e">>,
             <<"C", "O", "M", "P", "L", "E">>, <<"C", "O", "M", " ", "P", "L", "E", "X">>,
             <<"X", "E", "L", "P", "M", "O", "C">>, <<>> }

ClassifyContents ==
    { pre \o w \o post :
        pre \in { <<>>, <<" ">>, <<"n", "o", "t", " ">> },
        w \in ClassifyWords,
        post \in { <<>>, <<"\n">>, <<"!">> } }

ClassifyBackends == FailingBackends \cup AnsweringBackends(ClassifyContents)

\* classification that keeps the case of the response
ClassificationKeepCase(content) == Strip(content)

\* classification = response.content.strip().upper()
Classification(content) == Upper(Strip(content))

\* an except branch that lets the exception go
ClassifyReraise(m) == Raised(m)

\* except Exception as e: ...; return QueryComplexity.SIMPLE
ClassifyOnError(m) == Returned(SIMPLE)

\* the calls of llm.ainvoke a step makes with backend b and prompt p:
\* none when the client could not be made
Invocations(b, p) == IF b.create = "ok" THEN << p >> ELSE <<>>

\* the prompt of _classify_complexity
ClassifyPrompt(q) == <<"Classify this legal query:">> \o q

_classify_complexity(q, b) ==
    IF b.create = "raises" THEN ClassifyOnError(<<"client error">>)
    ELSE IF b.invoke = "raises" THEN ClassifyOnError(<<"backend error">>)
    ELSE IF b.invoke = "no_text" THEN ClassifyOnError(AttributeErrorMsg)
    ELSE IF Contains(Classification(b.content), ComplexWord)
         THEN Returned(COMPLEX)
         ELSE Returned(SIMPLE)

\* complexity = await self._classify_complexity(query), for some query and
\* some behaviour of the reasoning step
Classify ==
    /\ rpc = "r_idle"
    /\ \E q \in Queries, b \in ClassifyBackends :
         /\ rq' = q
         /\ llm' = b
         /\ complexity' = _classify_complexity(q, b)
         /\ invoked' = Invocations(b, ClassifyPrompt(q))
    /\ rpc' = "classified"
    /\ UNCHANGED <<synIn, madePlan, final_answer>>
    /\ UNCHANGED <<taskVars, dispVars, pipeVars, workerVars, concVars>>

(***************************************************************************)
(* Planner: LegalManagerAgent._plan_execution                              *)
(***************************************************************************)
\* a plan dict: keys is the set of keys it has; a field whose key is absent
\* holds the value below and is never read
PlanDict(keys, a, p, r) ==
    [ keys      |-> keys,
      agents_list |-> TRUE,     \* the value under "agents" is a list
      agents    |-> IF "agents" \in keys THEN a ELSE <<>>,
      parallel  |-> IF "parallel" \in keys THEN p ELSE FALSE,
      reasoning |-> IF "reasoning" \in keys THEN r ELSE "" ]

AllPlanKeys == {"agents", "parallel", "reasoning"}

\* return {"agents": ["worker_agent_1"], "parallel": False,
\*         "reasoning": "Default to data extraction"}
DefaultPlan ==
    PlanDict(AllPlanKeys, <<"worker_agent_1">>, FALSE, "Default to data extraction")

\* return {"agents": ["worker_agent_1"], "parallel": False}
ExceptPlan ==
    PlanDict({"agents", "parallel"}, <<"worker_agent_1">>, FALSE, "")

\* the plan d with a number under "agents" instead of a list
WithNumberAsAgents(d) == [d EXCEPT !.agents_list = FALSE, !.agents = <<>>]

\* what the reasoning step may write between a pair of braces, by name, and
\* the dict it is the JSON text of; "b_not_json" is text that is no JSON
PlanBodies ==
    [ b_w2_seq    |-> PlanDict(AllPlanKeys, <<"worker_agent_2">>, FALSE, "r"),
      b_both_par  |-> PlanDict(AllPlanKeys, <<"worker_agent_1", "worker_agent_2">>, TRUE, "r"),
      b_unknown   |-> PlanDict(AllPlanKeys, <<"unknown_agent">>, FALSE, "r"),
      b_empty     |-> PlanDict({"agents", "parallel"}, <<>>, FALSE, ""),
      b_no_agents |-> PlanDict({"reasoning"}, <<>>, FALSE, "r"),
      b_agents_number |-> WithNumberAsAgents(PlanDict(AllPlanKeys, <<>>, FALSE, "r")) ]

BodyTokens == (DOMAIN PlanBodies) \cup {"b_not_json"}

\* a pair of braces with something, or nothing, between them
BracedTexts == { <<"{", k, "}">> : k \in BodyTokens } \cup { <<"{", "}">> }

\* text without braces
Prose == { <<>>, <<"t">>, <<" ">> }

\* the texts a reasoning step answers the planning prompt with: up to two
\* braced texts, or a braced text and a lone brace, with prose around them
PlanContents ==
    { a \o x \o b \o y \o c :
        a \in Prose, b \in Prose, c \in Prose,
        x \in BracedTexts \cup { <<>> },
        y \in BracedTexts \cup { <<>>, <<"}">>, <<"{">> } }

PlanBackends == FailingBackends \cup AnsweringBackends(PlanContents)

Positions(t, ch) == { i \in DOMAIN t : t[i] = ch }

Min(S) == CHOOSE x \in S : \A y \in S : x <= y
Max(S) == CHOOSE x \in S : \A y \in S : x >= y

NoMatch == [found |-> FALSE, group |-> <<>>]

\* a search that stops at the first closing brace after the first opening one
NonGreedySearch(t) ==
    IF \E i \in Positions(t, "{"), j \in Positions(t, "}") : i < j
    THEN LET i == Min(Positions(t, "{"))
             j == Min({ k \in Positions(t, "}") : k > i })
         IN [found |-> TRUE, group |-> SubSeq(t, i, j)]
    ELSE NoMatch

\* re.search(r'\{.*\}', content, re.DOTALL): the leftmost match, and .* takes
\* as much as it can, so from the first opening brace to the last closing one
RegexSearch(t) ==
    IF \E i \in Positions(t, "{"), j \in Positions(t, "}") : i < j
    THEN [found |-> TRUE,
          group |-> SubSeq(t, Min(Positions(t, "{")), Max(Positions(t, "}")))]
    ELSE NoMatch

\* json.JSONDecodeError
JSONDecodeErrorMsg == <<"Expecting value">>

\* json.loads of a text that begins and ends with a brace
JsonLoads(t) ==
    IF t = <<"{", "}">> THEN Returned(PlanDict({}, <<>>, FALSE, ""))
    ELSE IF Len(t) = 3 /\ t[1] = "{" /\ t[3] = "}" /\ t[2] \in DOMAIN PlanBodies
         THEN Returned(PlanBodies[t[2]])
         ELSE Raised(JSONDecodeErrorMsg)

\* an except branch that lets the exception go
PlanReraise(m) == Raised(m)

\* a planner without its try: the error leaves _plan_execution
PlanErrorEscapes(m) == Raised(m)

\* except Exception as e: ...; return {"agents": [...], "parallel": False}
PlanOnError(m) == Returned(ExceptPlan)

\* the prompt of _plan_execution
PlanPrompt(q) == <<"Plan the execution for this legal query:">> \o q

_plan_execution(q, b) ==
    IF b.create = "raises" THEN PlanOnError(<<"client error">>)
    ELSE IF b.invoke = "raises" THEN PlanOnError(<<"backend error">>)
    ELSE IF b.invoke = "no_text" THEN PlanOnError(AttributeErrorMsg)
    ELSE LET match == RegexSearch(Strip(b.content)) IN
         IF match.found
         THEN LET decoded == JsonLoads(match.group) IN
              IF decoded.raised THEN PlanOnError(decoded.val) ELSE decoded
         ELSE Returned(DefaultPlan)

\* plan = await self._plan_execution(query), for some query and some
\* behaviour of the reasoning step
PlanExecution ==
    /\ rpc = "r_idle"
    /\ \E q \in Queries, b \in PlanBackends :
         /\ rq' = q
         /\ llm' = b
         /\ madePlan' = _plan_execution(q, b)
         /\ invoked' = Invocations(b, PlanPrompt(q))
    /\ rpc' = "planned"
    /\ UNCHANGED <<synIn, complexity, final_answer>>
    /\ UNCHANGED <<taskVars, dispVars, pipeVars, workerVars, concVars>>

(***************************************************************************)
(* Synthesizer: LegalManagerAgent._synthesize_results                      *)
(***************************************************************************)
\* the longest results list handed to the synthesizer
MaxResults == 2

\* the JSON bodies of successful worker calls: the worker endpoint's bodies,
\* the body {}, a body whose first artifact has no parts, and a body whose
\* first part has no "text" key (read as "" by parts[0].get("text", ""))
SynthBodies ==
    WorkerBodies
      \cup { NoBody,
             [id |-> "", state |-> COMPLETED, message |-> NoText,
              artifacts |-> << [parts |-> <<>>] >>],
             [id |-> "", state |-> COMPLETED, message |-> NoText,
              artifacts |-> << [parts |-> << [type |-> "data", text |-> NoText] >>] >>] }

\* the entries _execute_plan puts into its results
SynthEntries ==
    { call_worker_result(Worker1Url, [http |-> 200, json |-> TRUE, body |-> b]) :
        b \in SynthBodies }
      \cup { TimeoutResult(Worker2Url),
             call_worker_result(Worker2Url, [http |-> 500, json |-> TRUE, body |-> NoBody]) }

SynthInputs == SeqsUpTo(SynthEntries, MaxResults)

\* the texts a reasoning step answers the synthesis prompt with
SynthContents == { <<"s1">>, <<" ", "s1", "s2", "\n">>, <<>> }

SynthBackends == FailingBackends \cup AnsweringBackends(SynthContents)

\* "No results obtained from worker agents."
NoResultsMessage == <<"No results obtained from worker agents.">>

\* the test of the results loop: success, artifacts and parts not empty
Usable(r) ==
    /\ r.success
    /\ r.result.artifacts # <<>>
    /\ r.result.artifacts[1].parts # <<>>

\* result_texts: f"Agent {i+1} Result:\n{text}" for the usable entries, i+1
\* being the entry's place in results counted from one
RECURSIVE ResultTextsFrom(_, _)
ResultTextsFrom(rs, i) ==
    IF i > Len(rs) THEN <<>>
    ELSE (IF Usable(rs[i])
          THEN << [agent |-> i, text |-> rs[i].result.artifacts[1].parts[1].text] >>
          ELSE <<>>) \o ResultTextsFrom(rs, i + 1)

\* result_texts.insert(0, ...): the newest text first
ResultTextsNewestFirst(rs) ==
    LET texts == ResultTextsFrom(rs, 1)
    IN [k \in DOMAIN texts |-> texts[Len(texts) + 1 - k]]

ResultTexts(rs) == ResultTextsFrom(rs, 1)

\* synthesis_prompt
SynthesisPrompt(q, texts) == [query |-> q, result_texts |-> texts]

\* an except branch that lets the exception go
SynthReraise(m) == Raised(m)

\* f"Synthesis error: {str(e)}"
SynthOnError(m) == Returned(<<"Synthesis error: ">> \o m)

_synthesize_results(q, rs, b) ==
    IF b.create = "raises" THEN SynthOnError(<<"client error">>)
    ELSE IF ResultTexts(rs) = <<>> THEN Returned(NoResultsMessage)
    ELSE IF b.invoke = "raises" THEN SynthOnError(<<"backend error">>)
    ELSE IF b.invoke = "no_text" THEN SynthOnError(AttributeErrorMsg)
    ELSE Returned(Strip(b.content))

\* llm.ainvoke is reached when the client was made and result_texts is not empty
SynthInvocations(q, rs, b) ==
    IF b.create = "ok" /\ ResultTexts(rs) # <<>>
    THEN << SynthesisPrompt(q, ResultTexts(rs)) >>
    ELSE <<>>

\* final_answer = await self._synthesize_results(query, results), for some
\* query, some results and some behaviour of the reasoning step
Synthesize ==
    /\ rpc = "r_idle"
    /\ \E q \in Queries, rs \in SynthInputs, b \in SynthBackends :
         /\ rq' = q
         /\ synIn' = rs
         /\ llm' = b
         /\ final_answer' = _synthesize_results(q, rs, b)
         /\ invoked' = SynthInvocations(q, rs, b)
    /\ rpc' = "synthesized"
    /\ UNCHANGED <<complexity, madePlan>>
    /\ UNCHANGED <<taskVars, dispVars, pipeVars, workerVars, concVars>>

(***************************************************************************)
(* The pipeline: LegalManagerAgent.analyze_legal_query, called by          *)
(* LegalManagerAgent.handle_task and by the manager's POST /task route     *)
(***************************************************************************)
\* the behaviours of the reasoning step followed through the pipeline
PipeClassifyBackends ==
    { Backend("ok", "raises", NoText) } \cup AnsweringBackends({ ComplexWord })

PipePlanBackends ==
    { Backend("ok", "raises", NoText) }
      \cup AnsweringBackends({ <<"{", "b_both_par", "}">>,
                               <<"{", "b_w2_seq", "}">>,
                               <<"{", "b_empty", "}">>,
                               <<"{", "b_agents_number", "}">>,
                               <<"t">> })

PipeSynthBackends ==
    { Backend("raises", "none", NoText), Backend("ok", "raises", NoText) }
      \cup AnsweringBackends({ <<"s1">> })

\* TypeError: 'int' object is not iterable
NotIterableMsg == <<"'int' object is not iterable">>

\* f"Analysis error: {str(e)}"
AnalysisError(m) == <<"Analysis error: ">> \o m

\* a pipeline that goes on without writing its audit event
AnalyzeLogNothing(at, eventType, next) ==
    /\ apc = at
    /\ apc' = next
    /\ UNCHANGED <<aexc, faults>>
    /\ UNCHANGED <<hpc, via, kind, req, query, task, resp, exc, result, procOut, audit, hist>>
    /\ UNCHANGED <<aout, dispVars, rsVars, workerVars, concVars>>

\* log_event("ManagerAgent", ...) inside the try of analyze_legal_query
AnalyzeLog(at, eventType, next) ==
    /\ apc = at
    /\ \/ /\ audit' = Append(audit, eventType)
          /\ apc' = next
          /\ UNCHANGED <<aexc, faults>>
       \/ /\ aexc' = IOErrorMsg
          /\ apc' = "a_except"
          /\ faults' = faults \cup {"audit"}
          /\ UNCHANGED audit
    /\ UNCHANGED <<hpc, via, kind, req, query, task, resp, exc, result, procOut, hist>>
    /\ UNCHANGED <<aout, dispVars, rsVars, workerVars, concVars>>

\* complexity = await self._classify_complexity(query)
AnalyzeClassify ==
    /\ apc = "a_classify"
    /\ \E b \in PipeClassifyBackends :
         LET o == _classify_complexity(query, b) IN
           /\ llm' = b
           /\ complexity' = o
           /\ invoked' = Invocations(b, ClassifyPrompt(query))
           /\ faults' = IF b \in FailingBackends THEN faults \cup {"classify"} ELSE faults
           /\ IF o.raised
              THEN aexc' = o.val /\ apc' = "a_except"
              ELSE apc' = "a_log_classified" /\ UNCHANGED aexc
    /\ rpc' = "classified"
    /\ rq' = query
    /\ UNCHANGED <<synIn, madePlan, final_answer, aout>>
    /\ UNCHANGED <<taskVars, dispVars, workerVars, concVars>>

\* plan = await self._plan_execution(query)
AnalyzePlan ==
    /\ apc = "a_plan"
    /\ \E b \in PipePlanBackends :
         LET o == _plan_execution(query, b) IN
           /\ llm' = b
           /\ madePlan' = o
           /\ invoked' = Invocations(b, PlanPrompt(query))
           /\ faults' = IF b \in FailingBackends THEN faults \cup {"plan"} ELSE faults
           /\ IF o.raised
              THEN aexc' = o.val /\ apc' = "a_except"
              ELSE apc' = "a_log_plan" /\ UNCHANGED aexc
    /\ rpc' = "planned"
    /\ UNCHANGED <<rq, synIn, complexity, final_answer, aout>>
    /\ UNCHANGED <<taskVars, dispVars, workerVars, concVars>>

\* results = await self._execute_plan(query, plan): the call.
\* agents_to_call = plan.get("agents", []); is_parallel = plan.get("parallel",
\* False); iterating over agents_to_call raises TypeError when it is a number
AnalyzeExecuteCall ==
    /\ apc = "a_execute"
    /\ IF madePlan.val.agents_list
       THEN /\ plan' = [agents |-> madePlan.val.agents, parallel |-> madePlan.val.parallel]
            /\ dq' = query
            /\ dpc' = "d_start"
            /\ apc' = "a_executing"
            /\ UNCHANGED <<aexc, faults>>
       ELSE /\ aexc' = NotIterableMsg
            /\ apc' = "a_except"
            /\ faults' = faults \cup {"data"}
            /\ UNCHANGED <<plan, dq, dpc>>
    /\ UNCHANGED <<calls, order, si, results, aout>>
    /\ UNCHANGED <<taskVars, rsVars, workerVars, concVars>>

\* results = await self._execute_plan(query, plan): the return
AnalyzeExecuteReturn ==
    /\ apc = "a_executing"
    /\ dpc = "d_done"
    /\ apc' = "a_log_execution"
    /\ UNCHANGED <<aexc, aout, faults>>
    /\ UNCHANGED <<taskVars, dispVars, rsVars, workerVars, concVars>>

\* final_answer = await self._synthesize_results(query, results)
AnalyzeSynthesize ==
    /\ apc = "a_synthesize"
    /\ \E b \in PipeSynthBackends :
         LET o == _synthesize_results(query, results, b) IN
           /\ llm' = b
           /\ final_answer' = o
           /\ invoked' = SynthInvocations(query, results, b)
           /\ faults' = IF b \in { Backend("raises", "none", NoText),
                                    Backend("ok", "raises", NoText) }
                         THEN faults \cup {"synthesize"} ELSE faults
           /\ IF o.raised
              THEN aexc' = o.val /\ apc' = "a_except"
              ELSE apc' = "a_log_synthesis" /\ UNCHANGED aexc
    /\ rpc' = "synthesized"
    /\ synIn' = results
    /\ UNCHANGED <<rq, complexity, madePlan, aout>>
    /\ UNCHANGED <<taskVars, dispVars, workerVars, concVars>>

\* log_event(... "SYNTHESIS_COMPLETE" ...); return final_answer
AnalyzeLogSynthesisAndReturn ==
    /\ apc = "a_log_synthesis"
    /\ \/ /\ audit' = Append(audit, "SYNTHESIS_COMPLETE")
          /\ aout' = Returned(final_answer.val)
          /\ apc' = "a_returned"
          /\ UNCHANGED <<aexc, faults>>
       \/ /\ aexc' = IOErrorMsg
          /\ apc' = "a_except"
          /\ faults' = faults \cup {"audit"}
          /\ UNCHANGED <<audit, aout>>
    /\ UNCHANGED <<hpc, via, kind, req, query, task, resp, exc, result, procOut, hist>>
    /\ UNCHANGED <<dispVars, rsVars, workerVars, concVars>>

\* except Exception as e: error_msg = f"Analysis error: {str(e)}"; ...;
\* return error_msg
AnalyzeOnError(m) == Returned(AnalysisError(m))

\* the except branch: log_event("ManagerAgent", "ERROR", ...) is outside any
\* try, so its own failure leaves analyze_legal_query
AnalyzeExcept ==
    /\ apc = "a_except"
    /\ \/ /\ audit' = Append(audit, "ERROR")
          /\ aout' = AnalyzeOnError(aexc)
          /\ apc' = IF AnalyzeOnError(aexc).raised THEN "a_escaped" ELSE "a_returned"
          /\ UNCHANGED faults
       \/ /\ aout' = Raised(IOErrorMsg)
          /\ apc' = "a_escaped"
          /\ faults' = faults \cup {"audit"}
          /\ UNCHANGED audit
    /\ UNCHANGED aexc
    /\ UNCHANGED <<hpc, via, kind, req, query, task, resp, exc, result, procOut, hist>>
    /\ UNCHANGED <<dispVars, rsVars, workerVars, concVars>>

\* LegalManagerAgent.analyze_legal_query
analyze_legal_query ==
    \/ AnalyzeLog("a_log_received", "QUERY_RECEIVED", "a_classify")
    \/ AnalyzeClassify
    \/ AnalyzeLog("a_log_classified", "COMPLEXITY_CLASSIFIED", "a_plan")
    \/ AnalyzePlan
    \/ AnalyzeLog("a_log_plan", "PLAN_CREATED", "a_execute")
    \/ AnalyzeExecuteCall
    \/ apc = "a_executing" /\ execute_plan
    \/ AnalyzeExecuteReturn
    \/ AnalyzeLog("a_log_execution", "EXECUTION_COMPLETE", "a_synthesize")
    \/ AnalyzeSynthesize
    \/ AnalyzeLogSynthesisAndReturn
    \/ AnalyzeExcept

\* result = await self.analyze_legal_query(text): the call
AnalyzeCall(at) ==
    /\ hpc = at
    /\ apc = "a_idle"
    /\ apc' = "a_log_received"
    /\ UNCHANGED <<aexc, aout, faults>>
    /\ UNCHANGED <<taskVars, dispVars, rsVars, workerVars, concVars>>

\* result = await self.analyze_legal_query(text): the return, or the
\* exception that came out of it
AnalyzeReturn(at, next, onError) ==
    /\ hpc = at
    /\ apc \in {"a_returned", "a_escaped"}
    /\ procOut' = [kind |-> IF aout.raised THEN "raise" ELSE "return", val |-> aout.val]
    /\ IF aout.raised
       THEN /\ exc' = aout.val
            /\ hpc' = onError
            /\ UNCHANGED result
       ELSE /\ result' = aout.val
            /\ hpc' = next
            /\ UNCHANGED exc
    /\ UNCHANGED <<via, kind, req, query, task, resp, audit, hist>>
    /\ UNCHANGED <<dispVars, rsVars, pipeVars, workerVars, concVars>>

\* LegalManagerAgent.handle_task with analyze_legal_query as its processing
OrchestratorHandleTask ==
    \/ Handling("handle_task", "manager") /\ SetProcessing("h_extract")
    \/ Handling("handle_task", "manager") /\ ExtractStep("h_check")
    \/ Handling("handle_task", "manager") /\ CheckQuery(ManagerPrompt, "h_process")
    \/ Handling("handle_task", "manager") /\ AnalyzeCall("h_process")
    \/ Handling("handle_task", "manager") /\ AnalyzeReturn("h_process", "h_build", "h_except")
    \/ Handling("handle_task", "manager") /\ BuildStep("returned")
    \/ Handling("handle_task", "manager") /\ ExceptStep("returned")

\* run_manager_server.handle_task_endpoint with analyze_legal_query
OrchestratorTaskEndpoint ==
    \/ Handling("endpoint", "manager") /\ EndpointExtract
    \/ Handling("endpoint", "manager") /\ EndpointCheck(ManagerPrompt)
    \/ Handling("endpoint", "manager") /\ AnalyzeCall("e_process")
    \/ Handling("endpoint", "manager") /\ AnalyzeReturn("e_process", "e_build", EndpointExceptPc)
    \/ Handling("endpoint", "manager") /\ EndpointBuild
    \/ Handling("endpoint", "manager") /\ EndpointExcept

\* the requests to the orchestrator followed through the pipeline
OrchestratorRequests(v) ==
    { r \in Requests(v) :
        /\ r.id = "t1"
        /\ r.shape \in {"text", "content_null"}
        /\ r.text \in { <<"q1">>, NoText } }

\* the orchestrator admits a request; each request is followed from the
\* idle state, requests share no state
Admit ==
    /\ hpc = "idle"
    /\ \E v \in Vias :
         \E r \in OrchestratorRequests(v) :
            /\ via' = v
            /\ req' = r
            /\ hpc' = IF v = "handle_task" THEN "h_start" ELSE "e_parse"
    /\ kind' = "manager"
    /\ UNCHANGED <<query, task, resp, exc, result, procOut, audit, hist>>
    /\ UNCHANGED <<dispVars, rsVars, pipeVars, workerVars, concVars>>

(***************************************************************************)
(* MCP client of a worker: BaseAgent.ensure_mcp_initialized                *)
(***************************************************************************)
\* the request threads of the worker's server (app.run(..., threaded=True))
MaxThreads == 2

Threads == 1..MaxThreads

\* BaseAgent.__init__: mcp_tools names tools the registry has, or none of
\* them; self._mcp_client = None; self._tools = []
WorkerConstructed ==
    /\ configured = "unset"
    /\ configured' \in {"tools", "no_tools"}
    /\ UNCHANGED <<mcp_client, tools, tpc, tret, built, fetched>>
    /\ UNCHANGED <<taskVars, dispVars, rsVars, pipeVars, wVars, concVars>>

\* if self._mcp_client is not None: return True
EnsureCheck(t) ==
    /\ tpc[t] = "e_check"
    /\ IF mcp_client # "None"
       THEN /\ tret' = [tret EXCEPT ![t] = TRUE]
            /\ tpc' = [tpc EXCEPT ![t] = "e_done"]
       ELSE /\ tpc' = [tpc EXCEPT ![t] = "e_config"]
            /\ UNCHANGED tret
    /\ UNCHANGED <<configured, mcp_client, tools, built, fetched>>

\* mcp_config = self.get_mcp_config(); if not mcp_config: return True
EnsureConfig(t) ==
    /\ tpc[t] = "e_config"
    /\ IF configured = "no_tools"
       THEN /\ tret' = [tret EXCEPT ![t] = TRUE]
            /\ tpc' = [tpc EXCEPT ![t] = "e_done"]
       ELSE /\ tpc' = [tpc EXCEPT ![t] = "e_construct"]
            /\ UNCHANGED tret
    /\ UNCHANGED <<configured, mcp_client, tools, built, fetched>>

\* self._mcp_client = MultiServerMCPClient(mcp_config), or the constructor
\* raises and except returns False
EnsureConstruct(t) ==
    /\ tpc[t] = "e_construct"
    /\ \/ /\ mcp_client' = "client"
          /\ built' = built + 1
          /\ tpc' = [tpc EXCEPT ![t] = "e_fetch"]
          /\ UNCHANGED tret
       \/ /\ tret' = [tret EXCEPT ![t] = FALSE]
          /\ tpc' = [tpc EXCEPT ![t] = "e_done"]
          /\ UNCHANGED <<mcp_client, built>>
    /\ UNCHANGED <<configured, tools, fetched>>

\* self._tools = await self._mcp_client.get_tools(); return True (the
\* servers may offer no tool at all), or get_tools raises and except
\* returns False
EnsureFetch(t) ==
    /\ tpc[t] = "e_fetch"
    /\ \/ /\ tools' \in {<<"tool_1">>, <<>>}
          /\ fetched' = fetched + 1
          /\ tret' = [tret EXCEPT ![t] = TRUE]
       \/ /\ tret' = [tret EXCEPT ![t] = FALSE]
          /\ UNCHANGED <<tools, fetched>>
    /\ tpc' = [tpc EXCEPT ![t] = "e_done"]
    /\ UNCHANGED <<configured, mcp_client, built>>

\* BaseAgent.ensure_mcp_initialized, run by thread t
ensure_mcp_initialized(t) ==
    /\ \/ EnsureCheck(t)
       \/ EnsureConfig(t)
       \/ EnsureConstruct(t)
       \/ EnsureFetch(t)
    /\ UNCHANGED <<taskVars, dispVars, rsVars, pipeVars, wVars, concVars>>

\* a request thread calls ensure_mcp_initialized
EnsureCall(t) ==
    /\ configured # "unset"
    /\ tpc[t] = "e_idle"
    /\ tpc' = [tpc EXCEPT ![t] = "e_check"]
    /\ UNCHANGED <<configured, mcp_client, tools, tret, built, fetched>>
    /\ UNCHANGED <<taskVars, dispVars, rsVars, pipeVars, wVars, concVars>>

\* the caller has the returned value; the thread serves its next request
EnsureReturn(t) ==
    /\ tpc[t] = "e_done"
    /\ tpc' = [tpc EXCEPT ![t] = "e_idle"]
    /\ UNCHANGED <<configured, mcp_client, tools, tret, built, fetched>>
    /\ UNCHANGED <<taskVars, dispVars, rsVars, pipeVars, wVars, concVars>>

(***************************************************************************)
(* A worker's processing: process_query and BaseAgent.run_react_agent      *)
(***************************************************************************)
\* recursion_limit: int = 25
recursion_limit == 25

McpFailedMsg == <<"Error: Failed to initialize MCP tools">>
NoToolsMsg == <<"Error: No tools available">>

\* the message of the error the graph raises at its step ceiling
GraphRecursionErrorMsg == <<"Recursion limit reached">>

\* the last message of a graph that stops by itself at its step ceiling
NeedMoreStepsMsg == <<"Sorry, need more steps to process this request.">>

\* what the last message of the reasoning loop may hold
WorkerAnswers == { <<"a1">>, NoText }

\* the request thread that runs the process_query call followed here
Self == 1

\* the worker's position is p and it leaves with outcome o
WorkerLeaves(o) ==
    /\ wout' = o
    /\ wpc' = IF o.raised THEN "w_except" ELSE "w_return"

\* except Exception as e: raise
ProcessReraise(m) == Raised(m)

\* except Exception as e: return f"Error processing query: {str(e)}"
ProcessOnError(m) == Returned(<<"Error processing query: ">> \o m)

\* a ceiling that lets the graph run one step more
LimitOneMore(n) == n <= recursion_limit

\* config={"recursion_limit": recursion_limit}: the graph may run step n + 1
WithinLimit(n) == n < recursion_limit

\* if not await self.ensure_mcp_initialized(): the call
RunEnsureCall ==
    /\ wpc = "w_run"
    /\ tpc[Self] = "e_idle"
    /\ tpc' = [tpc EXCEPT ![Self] = "e_check"]
    /\ wpc' = "w_ensure"
    /\ UNCHANGED <<configured, mcp_client, tools, tret, built, fetched>>
    /\ UNCHANGED <<steps, wout>>

\* ensure_mcp_initialized running inside run_react_agent
RunEnsure ==
    /\ wpc = "w_ensure"
    /\ ensure_mcp_initialized(Self)

\* if not await self.ensure_mcp_initialized(): return "Error: Failed ..."
\* if not self._tools: return "Error: No tools available"
RunEnsureReturn ==
    /\ wpc = "w_ensure"
    /\ tpc[Self] = "e_done"
    /\ tpc' = [tpc EXCEPT ![Self] = "e_idle"]
    /\ IF ~tret[Self]
       THEN WorkerLeaves(Returned(McpFailedMsg))
       ELSE IF tools = <<>>
            THEN WorkerLeaves(Returned(NoToolsMsg))
            ELSE wpc' = "w_create" /\ UNCHANGED wout
    /\ UNCHANGED <<configured, mcp_client, tools, tret, built, fetched>>
    /\ UNCHANGED steps

\* llm = self.create_llm(); agent = create_react_agent(llm, self._tools):
\* the graph is made, or ChatOpenAI(**params) raises
RunCreate ==
    /\ wpc = "w_create"
    /\ \/ wpc' = "w_loop" /\ UNCHANGED wout
       \/ \E m \in ExcMsgs : WorkerLeaves(Raised(m))
    /\ steps' = 0
    /\ UNCHANGED mcpVars

\* response = await agent.ainvoke(...): one step of the graph. The steps
\* alternate between the reasoning step and the capability invocations it
\* proposed: the reasoning step raises, gives its last message, or proposes
\* invocations; the invocations are made and observed, or raise
ReactStep ==
    /\ wpc = "w_loop"
    /\ WithinLimit(steps)
    /\ steps' = steps + 1
    /\ IF steps % 2 = 0
       THEN \/ \E m \in ExcMsgs : WorkerLeaves(Raised(m))
            \/ \E a \in WorkerAnswers : WorkerLeaves(Returned(a))
            \/ UNCHANGED <<wpc, wout>>
       ELSE \/ \E m \in ExcMsgs : WorkerLeaves(Raised(m))
            \/ UNCHANGED <<wpc, wout>>
    /\ UNCHANGED mcpVars

\* the graph has run recursion_limit steps and is not done: it raises
\* GraphRecursionError, or ends by itself with a last message saying so
ReactCeiling ==
    /\ wpc = "w_loop"
    /\ ~WithinLimit(steps)
    /\ \/ WorkerLeaves(Raised(GraphRecursionErrorMsg))
       \/ WorkerLeaves(Returned(NeedMoreStepsMsg))
    /\ UNCHANGED steps
    /\ UNCHANGED mcpVars

\* BaseAgent.run_react_agent
run_react_agent ==
    \/ RunEnsureCall
    \/ RunEnsureReturn
    \/ RunCreate
    \/ ReactStep
    \/ ReactCeiling

\* try: result = await self.run_react_agent(query); return result
\* except Exception as e: return f"Error processing query: {str(e)}"
ProcessExcept ==
    /\ wpc = "w_except"
    /\ wout' = ProcessOnError(wout.val)
    /\ wpc' = IF wout'.raised THEN "w_escaped" ELSE "w_return"
    /\ UNCHANGED steps
    /\ UNCHANGED mcpVars

\* Worker1Agent.process_query, Worker2Agent.process_query
process_query ==
    \/ RunEnsure
    \/ /\ \/ run_react_agent
          \/ ProcessExcept
       /\ UNCHANGED <<taskVars, dispVars, rsVars, pipeVars, concVars>>

\* result = await self.process_query(query): the call
ProcessCall(at) ==
    /\ hpc = at
    /\ wpc = "w_idle"
    /\ wpc' = "w_run"
    /\ steps' = 0
    /\ UNCHANGED wout
    /\ UNCHANGED <<taskVars, dispVars, rsVars, pipeVars, mcpVars, concVars>>

\* result = await self.process_query(query): the returned text, or the
\* exception that came out of it
ProcessReturn(at, next, onError) ==
    /\ hpc = at
    /\ wpc \in {"w_return", "w_escaped"}
    /\ procOut' = [kind |-> IF wout.raised THEN "raise" ELSE "return", val |-> wout.val]
    /\ IF wout.raised
       THEN /\ exc' = wout.val
            /\ hpc' = onError
            /\ UNCHANGED result
       ELSE /\ result' = wout.val
            /\ hpc' = next
            /\ UNCHANGED exc
    /\ wpc' = "w_done"
    /\ UNCHANGED <<via, kind, req, query, task, resp, audit, hist>>
    /\ UNCHANGED <<steps, wout>>
    /\ UNCHANGED <<dispVars, rsVars, pipeVars, mcpVars, concVars>>

\* BaseAgent.handle_task of a worker, with its process_query
WorkerHandleTask ==
    \/ Handling("handle_task", "worker") /\ SetProcessing("h_extract")
    \/ Handling("handle_task", "worker") /\ ExtractStep("h_check")
    \/ Handling("handle_task", "worker") /\ CheckQuery(WorkerPrompt, "h_log_received")
    \/ Handling("handle_task", "worker")
          /\ log_event("h_log_received", "TASK_RECEIVED", "h_process", "h_except")
    \/ Handling("handle_task", "worker") /\ ProcessCall("h_process")
    \/ Handling("handle_task", "worker") /\ ProcessReturn("h_process", "h_build", "h_except")
    \/ Handling("handle_task", "worker") /\ BuildStep("h_log_completed")
    \/ Handling("handle_task", "worker")
          /\ log_event("h_log_completed", "TASK_COMPLETED", "returned", "h_except")
    \/ Handling("handle_task", "worker") /\ ExceptStep("h_log_error")
    \/ Handling("handle_task", "worker")
          /\ log_event("h_log_error", "TASK_ERROR", "returned", "escaped")

\* BaseAgent.run.handle_task_endpoint of a worker, with its process_query
WorkerTaskEndpoint ==
    \/ Handling("endpoint", "worker") /\ EndpointExtract
    \/ Handling("endpoint", "worker") /\ EndpointCheck(WorkerPrompt)
    \/ Handling("endpoint", "worker") /\ ProcessCall("e_process")
    \/ Handling("endpoint", "worker") /\ ProcessReturn("e_process", "e_build", EndpointExceptPc)
    \/ Handling("endpoint", "worker") /\ EndpointBuild
    \/ Handling("endpoint", "worker") /\ EndpointExcept

\* the requests to a worker followed through its processing
WorkerRequests(v) ==
    { r \in Requests(v) :
        /\ r.id = "t1"
        /\ r.shape \in {"text", "message_not_dict"}
        /\ r.text \in { <<"q1">>, NoText } }

\* the worker takes its next request; the MCP client and its tools stay
\* as the earlier requests left them
WorkerReceive ==
    /\ configured # "unset"
    /\ hpc \in {"idle", "returned", "responded", "escaped"}
    /\ \E v \in Vias :
         \E r \in WorkerRequests(v) :
            /\ via' = v
            /\ req' = r
            /\ hpc' = IF v = "handle_task" THEN "h_start" ELSE "e_parse"
    /\ kind' = "worker"
    /\ task' = NewTask
    /\ resp' = NoResp
    /\ query' = NoText
    /\ exc' = NoText
    /\ result' = NoText
    /\ procOut' = NoOutcome
    /\ audit' = <<>>
    /\ hist' = <<>>
    /\ wpc' = "w_idle"
    /\ steps' = 0
    /\ wout' = NoOutcome
    /\ UNCHANGED <<dispVars, rsVars, pipeVars, mcpVars, concVars>>

(***************************************************************************)
(* The orchestrator handling several requests at once.  The server runs    *)
(* with threaded=True: each request has a thread and an event loop of its  *)
(* own, and the threads interleave at every step.  A step below is the     *)
(* code of analyze_legal_query from one await to the next.                 *)
(***************************************************************************)
\* the requests in progress at the same time
MaxRequests == 2

RequestThreads == 1..MaxRequests

\* the local variables of a request thread before its request has come
NewRequestThread ==
    [ pc |-> "c_new", query |-> NoText,
      cb |-> NoBackend, complexity |-> Returned(SIMPLE),
      pb |-> NoBackend, plan |-> Returned(ExceptPlan),
      results |-> <<>>,
      sb |-> NoBackend, final_answer |-> Returned(NoText),
      resp |-> NoResp ]

\* the behaviours of the reasoning step and of the workers followed here
ConcClassifyBackends == AnsweringBackends({ ComplexWord })

ConcPlanBackends ==
    AnsweringBackends({ <<"{", "b_both_par", "}">>, <<"{", "b_w2_seq", "}">> })

ConcSynthBackends ==
    { Backend("ok", "raises", NoText) } \cup AnsweringBackends({ <<"s1">> })

ConcReplies ==
    { [http |-> 200, json |-> TRUE,
       body |-> [id |-> "", state |-> COMPLETED, message |-> NoText,
                 artifacts |-> TextArtifacts(<<"a1">>)]],
      [http |-> 0, json |-> FALSE, body |-> NoBody] }

\* a plan kept where every request thread reads what the last planner wrote
PlanOfLastPlanner(i) ==
    LET planned == { j \in RequestThreads \ {i} :
                       creq[j].pc \in {"c_execute", "c_synthesize", "c_respond", "c_done"} }
    IN IF planned = {} THEN creq[i].plan
       ELSE creq[CHOOSE j \in planned : TRUE].plan

\* results = await self._execute_plan(query, plan): plan is the local
\* variable of the request's own call of analyze_legal_query
PlanOf(i) == creq[i].plan

\* data = request.get_json(); ...; if not query: ...
ConcAdmit(i) ==
    /\ creq[i].pc = "c_new"
    /\ \E q \in Queries :
         creq' = [creq EXCEPT ![i].query = q, ![i].pc = "c_classify"]

\* complexity = await self._classify_complexity(query)
ConcClassify(i) ==
    /\ creq[i].pc = "c_classify"
    /\ \E b \in ConcClassifyBackends :
         creq' = [creq EXCEPT ![i].cb = b,
                              ![i].complexity = _classify_complexity(creq[i].query, b),
                              ![i].pc = "c_plan"]

\* plan = await self._plan_execution(query)
ConcPlan(i) ==
    /\ creq[i].pc = "c_plan"
    /\ \E b \in ConcPlanBackends :
         creq' = [creq EXCEPT ![i].pb = b,
                              ![i].plan = _plan_execution(creq[i].query, b),
                              ![i].pc = "c_execute"]

\* results = await self._execute_plan(query, plan): one entry for each
\* resolved agent of the plan, in the plan's order, each with what its own
\* round trip brought back
ConcExecute(i) ==
    /\ creq[i].pc = "c_execute"
    /\ LET agents == Resolved(PlanOf(i).val.agents) IN
         \E replies \in [1..Len(agents) -> ConcReplies] :
            creq' = [creq EXCEPT
                       ![i].results = [k \in 1..Len(agents) |->
                                         call_worker_result(agent_map[agents[k]], replies[k])],
                       ![i].pc = "c_synthesize"]

\* final_answer = await self._synthesize_results(query, results)
ConcSynthesize(i) ==
    /\ creq[i].pc = "c_synthesize"
    /\ \E b \in ConcSynthBackends :
         creq' = [creq EXCEPT
                    ![i].sb = b,
                    ![i].final_answer = _synthesize_results(creq[i].query, creq[i].results, b),
                    ![i].pc = "c_respond"]

\* return jsonify({"id": ..., "status": {"state": "completed"}, "artifacts": ...})
ConcRespond(i) ==
    /\ creq[i].pc = "c_respond"
    /\ creq' = [creq EXCEPT
                  ![i].resp = [id |-> "", state |-> COMPLETED, message |-> NoText,
                               artifacts |-> TextArtifacts(creq[i].final_answer.val)],
                  ![i].pc = "c_done"]

\* one step of the thread of request i
RequestThreadStep(i) ==
    /\ \/ ConcAdmit(i)
       \/ ConcClassify(i)
       \/ ConcPlan(i)
       \/ ConcExecute(i)
       \/ ConcSynthesize(i)
       \/ ConcRespond(i)
    /\ UNCHANGED <<taskVars, dispVars, rsVars, pipeVars, workerVars>>

(***************************************************************************)
(* Specifications                                                          *)
(***************************************************************************)
TaskIdle ==
    /\ hpc = "idle"
    /\ via = "handle_task"
    /\ kind = "worker"
    /\ req = NoRequest
    /\ query = NoText
    /\ task = NewTask
    /\ resp = NoResp
    /\ exc = NoText
    /\ result = NoText
    /\ procOut = NoOutcome
    /\ audit = <<>>
    /\ hist = <<>>

DispatchIdle ==
    /\ dpc = "d_idle"
    /\ plan = [agents |-> <<>>, parallel |-> FALSE]
    /\ dq = NoText
    /\ calls = <<>>
    /\ order = <<>>
    /\ si = 1
    /\ results = <<>>

ReasoningIdle ==
    /\ rpc = "r_idle"
    /\ rq = NoText
    /\ llm = NoBackend
    /\ synIn = <<>>
    /\ complexity = NoOutcome
    /\ madePlan = NoOutcome
    /\ final_answer = NoOutcome
    /\ invoked = <<>>

PipelineIdle ==
    /\ apc = "a_idle"
    /\ aexc = NoText
    /\ aout = NoOutcome
    /\ faults = {}

WorkerIdle ==
    /\ configured = "unset"
    /\ mcp_client = "None"
    /\ tools = <<>>
    /\ tpc = [t \in Threads |-> "e_idle"]
    /\ tret = [t \in Threads |-> FALSE]
    /\ built = 0
    /\ fetched = 0
    /\ wpc = "w_idle"
    /\ steps = 0
    /\ wout = NoOutcome

ConcurrentIdle == creq = [i \in RequestThreads |-> NewRequestThread]

Init ==
    /\ TaskIdle /\ DispatchIdle /\ ReasoningIdle /\ PipelineIdle /\ WorkerIdle
    /\ ConcurrentIdle

\* the task protocol: requests to handle_task and to POST /task
TaskNext ==
    \/ Receive
    \/ BaseHandleTask
    \/ ManagerHandleTask
    \/ BaseTaskEndpoint
    \/ ManagerTaskEndpoint

TaskSpec == Init /\ [][TaskNext]_vars

\* dispatches of plans
DispatchNext ==
    \/ Dispatch
    \/ execute_plan

DispatchSpec == Init /\ [][DispatchNext]_vars

\* calls of the classifier
ClassifyNext ==
    \/ Classify

ClassifySpec == Init /\ [][ClassifyNext]_vars

\* calls of the planner
PlanNext ==
    \/ PlanExecution

PlanSpec == Init /\ [][PlanNext]_vars

\* calls of the synthesizer
SynthNext ==
    \/ Synthesize

SynthSpec == Init /\ [][SynthNext]_vars

\* requests to the orchestrator, through the whole pipeline
PipelineNext ==
    \/ Admit
    \/ OrchestratorHandleTask
    \/ OrchestratorTaskEndpoint
    \/ analyze_legal_query

PipelineSpec == Init /\ [][PipelineNext]_vars

\* request threads of one worker process calling ensure_mcp_initialized
McpNext ==
    \/ WorkerConstructed
    \/ \E t \in Threads : EnsureCall(t)
    \/ \E t \in Threads : ensure_mcp_initialized(t)
    \/ \E t \in Threads : EnsureReturn(t)

McpSpec == Init /\ [][McpNext]_vars

\* a worker process serving requests, one followed through process_query
\* while the other request threads initialise the MCP client as well
WorkerNext ==
    \/ WorkerConstructed
    \/ WorkerReceive
    \/ WorkerHandleTask
    \/ WorkerTaskEndpoint
    \/ process_query
    \/ \E t \in Threads \ {Self} : EnsureCall(t)
    \/ \E t \in Threads \ {Self} : ensure_mcp_initialized(t)
    \/ \E t \in Threads \ {Self} : EnsureReturn(t)

WorkerSpec == Init /\ [][WorkerNext]_vars

\* the event loop of the request runs the coroutine on: every awaited call
\* returns or fails
WorkerFairSpec == WorkerSpec /\ WF_vars(process_query)

\* a process of the framework: the orchestrator with its pipeline, or a
\* worker with its reasoning loop
AgentsNext ==
    \/ configured = "unset" /\ PipelineNext
    \/ kind = "worker" /\ WorkerNext

AgentsSpec == Init /\ [][AgentsNext]_vars

\* the orchestrator's request threads, interleaved
ConcurrentNext ==
    \/ \E i \in RequestThreads : RequestThreadStep(i)

ConcurrentSpec == Init /\ [][ConcurrentNext]_vars

\* the steps the orchestrator takes by itself: everything but the arrival
\* of a request and the arrival of a worker's reply
OrchestratorSteps ==
    \/ OrchestratorHandleTask
    \/ OrchestratorTaskEndpoint
    \/ AnalyzeLog("a_log_received", "QUERY_RECEIVED", "a_classify")
    \/ AnalyzeClassify
    \/ AnalyzeLog("a_log_classified", "COMPLEXITY_CLASSIFIED", "a_plan")
    \/ AnalyzePlan
    \/ AnalyzeLog("a_log_plan", "PLAN_CREATED", "a_execute")
    \/ AnalyzeExecuteCall
    \/ apc = "a_executing" /\ (ExecutePlanStart \/ GatherReturns \/ SequentialLoop \/ SequentialAppend)
    \/ AnalyzeExecuteReturn
    \/ AnalyzeLog("a_log_execution", "EXECUTION_COMPLETE", "a_synthesize")
    \/ AnalyzeSynthesize
    \/ AnalyzeLogSynthesisAndReturn
    \/ AnalyzeExcept

\* the aiohttp.ClientTimeout of a call in flight runs out
TimeoutStep ==
    /\ apc = "a_executing"
    /\ dpc \in {"d_gather", "d_await"}
    /\ \E i \in DOMAIN calls : TimeoutExpires(i)

\* the pipeline with an event loop that runs what is ready, reasoning steps
\* that return or fail, and timeouts that run out; workers need not answer
PipelineFairSpec ==
    PipelineSpec /\ WF_vars(OrchestratorSteps) /\ WF_vars(TimeoutStep)


(***************************************************************************)
(* Properties of the task protocol (checked under TaskSpec)                *)
(***************************************************************************)
\* what the caller of the finished request holds: the Task handle_task
\* returned, or the JSON body of the route
Outcome ==
    IF via = "handle_task"
    THEN [state |-> task.status.state, message |-> task.status.message,
          artifacts |-> task.artifacts]
    ELSE [state |-> resp.state, message |-> resp.message,
          artifacts |-> resp.artifacts]

\* the request has empty or missing content.text
EmptyTextRequest(r) ==
    \/ r.shape \in {"message_absent", "content_absent", "text_absent"}
    \/ r.shape = "text" /\ r.text = NoText

\* C1: every POST /task request, to a worker or to the manager, whatever the
\* message shape and whatever the processing function does, is answered with
\* a body whose status.state is completed, input_required or failed; no
\* exception leaves the route.
C1_EndpointAnswersWithTerminalState ==
    via = "endpoint" =>
        /\ hpc # "escaped"
        /\ hpc = "responded" => resp.state \in {COMPLETED, INPUT_REQUIRED, FAILED}

\* C1 witness: a route answered failed after its processing function raised.
C1_Witness ==
    /\ via = "endpoint"
    /\ hpc = "responded"
    /\ resp.state = FAILED
    /\ procOut.kind = "raise"
    /\ exc = procOut.val

\* C2: no exception leaves handle_task, of the worker or of the manager,
\* whatever fails: extraction, processing, or a write of an audit event
\* (the one in the error branch included).
C2_HandleTaskNeverRaises ==
    via = "handle_task" => hpc # "escaped"

\* C3: when the processing function raises with message m for a request with
\* non-empty query text, the handler ends in FAILED and the status message
\* of the response contains m.
C3_ProcessingErrorInStatusMessage ==
    (Finished /\ procOut.kind = "raise") =>
        /\ hpc # "escaped"
        /\ Outcome.state = FAILED
        /\ Contains(Outcome.message, procOut.val)

\* C4: a request with empty or missing content.text ends input_required with
\* an empty artifacts sequence, on handle_task and on the routes alike.
C4_EmptyTextGivesNoArtifacts ==
    (Finished /\ EmptyTextRequest(req)) =>
        /\ Outcome.state = INPUT_REQUIRED
        /\ Outcome.artifacts = <<>>

\* C5: a returned Task or a response body whose state is failed has an empty
\* artifacts sequence.
C5_FailedHasNoArtifacts ==
    (hpc \in {"returned", "responded"} /\ Outcome.state = FAILED) =>
        Outcome.artifacts = <<>>

\* C6: a task that ends completed carries exactly one artifact with exactly
\* one part of type text, whose text is what the processing function
\* returned for this request.
C6_CompletedCarriesTheResult ==
    (Finished /\ Outcome.state = COMPLETED) =>
        /\ procOut.kind = "return"
        /\ Len(Outcome.artifacts) = 1
        /\ DOMAIN Outcome.artifacts[1] = {"parts"}
        /\ Len(Outcome.artifacts[1].parts) = 1
        /\ Outcome.artifacts[1].parts[1].type = "text"
        /\ Outcome.artifacts[1].parts[1].text = procOut.val

\* C6 witness: a worker's handle_task returned a completed task for an answer
\* longer than one token, with both audit events written.
C6_Witness ==
    /\ via = "handle_task"
    /\ kind = "worker"
    /\ hpc = "returned"
    /\ task.status.state = COMPLETED
    /\ Len(procOut.val) > 1
    /\ audit = <<"TASK_RECEIVED", "TASK_COMPLETED">>

\* C7: the states assigned to task.status are PROCESSING first and then
\* exactly one terminal state, which is never replaced.
C7_StatusFollowsStateMachine ==
    (via = "handle_task" /\ hpc # "idle") =>
        /\ Len(hist) <= 2
        /\ Len(hist) >= 1 => hist[1] = PROCESSING
        /\ Len(hist) = 2 => hist[2] \in TerminalStates
        /\ Finished => Len(hist) = 2

(***************************************************************************)
(* Properties of dispatch (checked under DispatchSpec)                     *)
(***************************************************************************)
\* C8: in parallel mode the output lists the results in the order of the
\* plan's resolved identifiers, whatever order the calls finished in.
C8_ParallelKeepsPlanOrder ==
    (dpc = "d_done" /\ plan.parallel) =>
        LET r == Resolved(plan.agents) IN
        /\ Len(results) = Len(r)
        /\ \A i \in 1..Len(r) :
             /\ calls[i].agent = r[i]
             /\ results[i] = calls[i].res
             /\ results[i].agent_url = agent_map[r[i]]

\* C8 witness: two calls to different workers finished in the reverse of the
\* plan order with different results.
C8_Witness ==
    /\ dpc = "d_done"
    /\ plan.parallel
    /\ order = <<2, 1>>
    /\ results[1].agent_url # results[2].agent_url
    /\ results[1].success # results[2].success

\* C9: in parallel mode a call ends only by its own round trip or its own
\* timeout; a call that failed or timed out has success false, and every
\* call whose worker answered OK has success true.
C9_ParallelFailureIsIsolated ==
    (plan.parallel /\ dpc \in {"d_gather", "d_done"}) =>
        \A i \in DOMAIN calls :
            /\ calls[i].st = "done" => calls[i].worker # "pending"
            /\ calls[i].worker = "ok" => calls[i].res.success
            /\ calls[i].worker \in {"failed", "no_answer"} => ~calls[i].res.success
            /\ dpc = "d_done" => (results[i].success <=> calls[i].worker = "ok")

\* C9 witness: one call timed out first, its sibling was answered OK after
\* that, and the output shows failure for the one and success for the other.
C9_Witness ==
    /\ dpc = "d_done"
    /\ plan.parallel
    /\ Len(calls) = 2
    /\ order = <<1, 2>>
    /\ calls[1].worker = "no_answer"
    /\ calls[2].worker = "ok"
    /\ ~results[1].success
    /\ results[1].error = "Timeout"
    /\ results[2].success

\* C10: in sequential mode every resolved agent is called and has an entry
\* in the output, also after a call that failed or timed out.
C10_SequentialContinuesAfterFailure ==
    (dpc = "d_done" /\ ~plan.parallel) =>
        LET r == Resolved(plan.agents) IN
        /\ Len(calls) = Len(r)
        /\ Len(results) = Len(r)
        /\ \A i \in 1..Len(r) :
             /\ calls[i].agent = r[i]
             /\ results[i] = calls[i].res
             /\ results[i].agent_url = agent_map[r[i]]

\* C10 witness: the first call failed and the second agent was still called.
C10_Witness ==
    /\ dpc = "d_done"
    /\ ~plan.parallel
    /\ Len(results) = 2
    /\ ~results[1].success
    /\ calls[2].st = "done"

\* C11: in sequential mode the worker calls of a dispatch are serialized in
\* plan order: at most one call is in flight, every call before the newest
\* one has finished and has its result in the output before the next call
\* is started, and the calls are made and finish in the order of the plan.
C11_SequentialCallsAreSerialized ==
    (dpc \in {"d_loop", "d_await", "d_done"} /\ ~plan.parallel) =>
        /\ Cardinality({ i \in DOMAIN calls : calls[i].st = "inflight" }) <= 1
        /\ \A i \in DOMAIN calls :
              /\ calls[i].agent = Resolved(plan.agents)[i]
              /\ i < Len(calls) =>
                    /\ calls[i].st = "done"
                    /\ i <= Len(results)
                    /\ results[i] = calls[i].res
        /\ Len(results) >= Len(calls) - 1
        /\ \A k \in DOMAIN order : order[k] = k

\* the second call of a sequential dispatch is in flight, the first has
\* finished and its result is in the output
C11_Witness ==
    /\ dpc = "d_await"
    /\ ~plan.parallel
    /\ Len(calls) = 2
    /\ calls[1].st = "done"
    /\ calls[2].st = "inflight"
    /\ Len(results) = 1

\* C12: in both modes a finished dispatch has made one call and has one
\* output entry for every occurrence in plan.agents of an identifier that is
\* a key of agent_map, duplicates and aliases each counted; the other
\* identifiers add no entry and do not stop the dispatch.
C12_OneEntryPerMappedOccurrence ==
    dpc = "d_done" =>
        LET mapped == { i \in DOMAIN plan.agents : plan.agents[i] \in DOMAIN agent_map } IN
          /\ Len(results) = Cardinality(mapped)
          /\ Len(calls) = Cardinality(mapped)

\* a parallel dispatch of the same alias twice has finished with two entries
C12_Witness ==
    /\ dpc = "d_done"
    /\ plan.parallel
    /\ plan.agents = <<"clause_agent", "clause_agent">>
    /\ Len(results) = 2

\* C13: a worker call that is over has returned a result dict: success is
\* true exactly for status 200 with a JSON body, and then the body is the
\* result; a timeout, a transport error, another status and a body that is
\* no JSON each give success false with an error reason and the worker's URL.
C13_WorkerCallAlwaysReturnsAResult ==
    \A i \in DOMAIN calls :
        calls[i].st = "done" =>
            LET c == calls[i]
                r == calls[i].res
            IN /\ r.agent_url = c.url
               /\ r.success <=> (c.reply.http = 200 /\ c.reply.json)
               /\ r.success => (r.result = c.reply.body /\ r.error = "")
               /\ ~r.success => (r.error \notin {"", "pending"} /\ r.result = NoBody)
               /\ c.reply = NoReply => r.error = "Timeout"
               /\ c.reply.http = 500 => r.error = "HTTP 500"

\* a call has ended with status 200 and a body that is no JSON
C13_Witness ==
    \E i \in DOMAIN calls :
        /\ calls[i].st = "done"
        /\ calls[i].reply.http = 200
        /\ ~calls[i].reply.json
        /\ ~calls[i].res.success

\* C16: a dispatch of a non-empty query never ends without a worker call:
\* when the plan's agents are empty or all unknown, the fallback worker
\* worker_agent_1 is called.
C16_EmptyPlanCallsTheFallbackWorker ==
    (dpc = "d_done" /\ dq # NoText) =>
        /\ calls # <<>>
        /\ Resolved(plan.agents) = <<>> =>
              \E i \in DOMAIN calls : calls[i].url = Worker1Url

(***************************************************************************)
(* Properties of the classifier (checked under ClassifySpec)               *)
(***************************************************************************)
\* C18: for every query and every behaviour of the reasoning step (any
\* text, no text, a failing call, a client that cannot be made) the
\* classifier returns one of the two labels and lets no exception out.
C18_ClassifyReturnsALabel ==
    rpc = "classified" =>
        /\ ~complexity.raised
        /\ complexity.val \in {SIMPLE, COMPLEX}

\* the classifier has run against a reasoning step that failed
C18_Witness ==
    /\ rpc = "classified"
    /\ llm.invoke = "raises"
    /\ complexity = Returned(SIMPLE)

\* the response text holds the word COMPLEX, letters compared without case
HoldsComplexIgnoringCase(t) ==
    \E i \in 1..(Len(t) - 6) :
        \A k \in 1..7 :
            \/ t[i + k - 1] = ComplexWord[k]
            \/ <<t[i + k - 1], ComplexWord[k]>> \in CasePairs

\* C19: the classifier returns COMPLEX exactly when the reasoning step
\* answered with a text that holds the word COMPLEX in any mix of cases;
\* every other response and every failure gives SIMPLE.
C19_ComplexIffResponseSaysComplex ==
    rpc = "classified" =>
        complexity = IF llm.invoke = "ok" /\ HoldsComplexIgnoringCase(llm.content)
                     THEN Returned(COMPLEX)
                     ELSE Returned(SIMPLE)

\* the response said "not CoMpLeX" in mixed case and the label is COMPLEX
C19_Witness ==
    /\ rpc = "classified"
    /\ llm.content = <<"n", "o", "t", " ", "C", "o", "M", "p", "L", "e", "X">>
    /\ complexity = Returned(COMPLEX)

(***************************************************************************)
(* Properties of the planner (checked under PlanSpec)                      *)
(***************************************************************************)
\* C14: for every query and every response of the reasoning step, a
\* decodable object with an empty or a missing agents field included, the
\* plan the planner returns has an agents list that is not empty.
C14_PlanHasAgents ==
    rpc = "planned" =>
        /\ ~madePlan.raised
        /\ "agents" \in madePlan.val.keys
        /\ madePlan.val.agents # <<>>

\* the response has no opening brace with a closing brace after it
NoBracedText(t) ==
    ~ \E i \in DOMAIN t, j \in DOMAIN t : i < j /\ t[i] = "{" /\ t[j] = "}"

\* the reasoning step gave no text
StepFailed == llm.create = "raises" \/ llm.invoke # "ok"

\* the text the planner extracted does not decode
ExtractDoesNotDecode ==
    /\ ~StepFailed
    /\ ~NoBracedText(llm.content)
    /\ JsonLoads(RegexSearch(Strip(llm.content)).group).raised

FirstObjectEnd(t) ==
    Min({ k \in Positions(t, "}") : k > Min(Positions(t, "{")) })

\* C17: when the first braced text of the response decodes to a plan with
\* agents, parallel and reasoning, and the text after it holds another
\* closing brace (alone or closing a second braced text), the planner
\* returns the plan decoded from that first braced text.
C17_FirstObjectIsThePlan ==
    (/\ rpc = "planned"
     /\ ~StepFailed
     /\ ~NoBracedText(llm.content)) =>
        LET text  == Strip(llm.content)
            first == NonGreedySearch(text).group
        IN (/\ ~JsonLoads(first).raised
            /\ JsonLoads(first).val.keys = AllPlanKeys
            /\ \E k \in Positions(text, "}") : k > FirstObjectEnd(text))
              => madePlan = JsonLoads(first)

(***************************************************************************)
(* Properties of the synthesizer (checked under SynthSpec)                 *)
(***************************************************************************)
\* C20: when no entry of results is a success whose first artifact has a
\* part (all failed, none at all, or successes without artifacts or
\* parts), the synthesizer returns the canonical no-results message and
\* has called the reasoning step not once, whether or not the backend
\* works and whether or not its client can be made.
C20_NoUsableResultGivesTheCanonicalMessage ==
    (rpc = "synthesized" /\ \A i \in DOMAIN synIn : ~Usable(synIn[i])) =>
        /\ final_answer = Returned(NoResultsMessage)
        /\ invoked = <<>>

\* the entries of rs that are a success whose first artifact has a first part
PrimaryTextEntries(rs) ==
    { i \in DOMAIN rs :
        /\ rs[i].success
        /\ Len(rs[i].result.artifacts) >= 1
        /\ Len(rs[i].result.artifacts[1].parts) >= 1 }

\* C21: the worker outputs in the prompt handed to the synthesis reasoning
\* step are the texts of the first part of the first artifact of the
\* successful results, one per such result, in the order of the results
\* list and numbered by their place in it; nothing of a failed entry is in
\* the prompt.
C21_SynthesisInputIsTheSuccessfulTexts ==
    (rpc = "synthesized" /\ invoked # <<>>) =>
        LET texts == invoked[1].result_texts IN
          /\ Len(invoked) = 1
          /\ invoked[1].query = rq
          /\ Len(texts) = Cardinality(PrimaryTextEntries(synIn))
          /\ \A k \in DOMAIN texts :
                /\ texts[k].agent \in PrimaryTextEntries(synIn)
                /\ synIn[texts[k].agent].success
                /\ texts[k].text = synIn[texts[k].agent].result.artifacts[1].parts[1].text
                /\ k > 1 => texts[k - 1].agent < texts[k].agent

\* a failed entry came first and a successful one second: the prompt holds
\* the second entry's text alone
C21_Witness ==
    /\ rpc = "synthesized"
    /\ Len(synIn) = 2
    /\ ~synIn[1].success
    /\ synIn[2].success
    /\ Len(invoked) = 1
    /\ invoked[1].result_texts = << [agent |-> 2, text |-> <<"a1">>] >>

(***************************************************************************)
(* Properties of the pipeline (checked under PipelineSpec)                 *)
(***************************************************************************)
\* the reasoning step failed while the synthesizer was using it
SynthesisFailed ==
    /\ rpc = "synthesized"
    /\ \/ llm.create = "raises"
       \/ llm.invoke = "raises" /\ invoked # <<>>

\* C22: when the reasoning step fails during synthesis (and no audit write
\* fails), the synthesizer returns the text "Synthesis error: ..." instead
\* of raising, and the request ends completed with that text as its only
\* artifact, by handle_task and by the route alike.
C22_SynthesisFailureEndsCompleted ==
    (Finished /\ SynthesisFailed /\ "audit" \notin faults) =>
        /\ ~final_answer.raised
        /\ Head(final_answer.val) = "Synthesis error: "
        /\ aout = final_answer
        /\ Outcome.state = COMPLETED
        /\ Outcome.artifacts = TextArtifacts(final_answer.val)

\* handle_task returned a completed task whose artifact is the error text
\* of a synthesis whose reasoning step raised
C22_Witness ==
    /\ hpc = "returned"
    /\ SynthesisFailed
    /\ llm.invoke = "raises"
    /\ task.status.state = COMPLETED
    /\ task.artifacts = TextArtifacts(<<"Synthesis error: ", "backend error">>)

\* C23: for a request with a non-empty query, whatever mix of failing
\* classification, failing planning, failing worker calls and failing
\* synthesis happens (with the audit writes working and a plan whose agents
\* are a list), the pipeline runs through to the synthesizer and the
\* response is completed with the synthesizer's text as its artifact.
C23_LayerFailuresAreAbsorbed ==
    (Finished /\ query # NoText /\ faults \subseteq {"classify", "plan", "synthesize"}) =>
        /\ rpc = "synthesized"
        /\ ~final_answer.raised
        /\ aout = final_answer
        /\ Outcome.state = COMPLETED
        /\ Outcome.artifacts = TextArtifacts(final_answer.val)

\* classification, planning, the one worker call and synthesis all failed
\* and the route answered completed
C23_Witness ==
    /\ hpc = "responded"
    /\ faults = {"classify", "plan", "synthesize"}
    /\ Len(results) = 1
    /\ ~results[1].success
    /\ resp.state = COMPLETED
    /\ resp.artifacts = TextArtifacts(<<"Synthesis error: ", "client error">>)

\* C24: an error in the pipeline that is none of the four recovered kinds
\* (a plan whose agents are a number, a failing audit write) ends the
\* request in state failed, never as the text of a completed one.
C24_OtherErrorsEndFailed ==
    (Finished /\ query # NoText /\ faults \cap {"data", "audit"} # {}) =>
        Outcome.state = FAILED

\* one of two parallel calls ended by its timeout, the other with a
\* completed body
OneTimedOutOneAnswered ==
    /\ plan.parallel
    /\ Len(calls) = 2
    /\ \E i, j \in DOMAIN calls :
         /\ i # j
         /\ calls[i].worker = "no_answer"
         /\ calls[j].worker = "ok"
         /\ calls[j].reply.body.state = COMPLETED
         /\ calls[j].reply.body.artifacts # <<>>

\* C25: when a request was dispatched to two workers in parallel and one
\* call timed out while the other was answered (and no audit write fails),
\* the response is completed, and the prompt handed to the synthesis
\* reasoning step holds the answering worker's text and nothing else.
C25_SurvivorOnlyIsSynthesized ==
    (Finished /\ OneTimedOutOneAnswered /\ "audit" \notin faults) =>
        /\ Outcome.state = COMPLETED
        /\ llm.create = "ok" =>
              /\ Len(invoked) = 1
              /\ \E j \in DOMAIN calls :
                    /\ calls[j].worker = "ok"
                    /\ invoked[1].result_texts =
                          << [agent |-> j, text |-> calls[j].reply.body.artifacts[1].parts[1].text] >>

\* the first of two parallel calls timed out, the second was answered, and
\* the route answered completed with the synthesized text
C25_Witness ==
    /\ hpc = "responded"
    /\ OneTimedOutOneAnswered
    /\ calls[1].worker = "no_answer"
    /\ faults = {}
    /\ invoked = << SynthesisPrompt(query, << [agent |-> 2, text |-> <<"a1">>] >>) >>
    /\ resp.state = COMPLETED
    /\ resp.artifacts = TextArtifacts(<<"s1">>)

\* C30: every admitted request is answered in the end, by handle_task
\* returning its task or by the route sending its body, provided reasoning
\* steps return or fail; a worker that never answers is ended by the
\* timeout of its call, in parallel and in sequential mode.
C30_AdmittedRequestIsAnswered ==
    (hpc # "idle") ~> (hpc \in {"returned", "responded"})

\* a request was answered after a sequential call ended by its timeout
C30_Witness ==
    /\ hpc \in {"returned", "responded"}
    /\ ~plan.parallel
    /\ Len(calls) = 1
    /\ calls[1].worker = "no_answer"

(***************************************************************************)
(* Properties of the MCP client (checked under McpSpec)                    *)
(***************************************************************************)
\* C26: in one worker process the MCP client is made at most once and its
\* tools are fetched at most once, however the request threads interleave.
C26_McpInitialisedAtMostOnce ==
    /\ built <= 1
    /\ fetched <= 1

\* C27: a call of ensure_mcp_initialized that returned True found no tools
\* configured or came after the tools had been fetched; a call made when
\* the tools are configured and were never fetched returns False, also
\* after an earlier call has failed.
C27_TrueOnlyWhenReady ==
    \A t \in Threads :
        (tpc[t] = "e_done" /\ tret[t]) =>
            \/ configured = "no_tools"
            \/ fetched >= 1

(***************************************************************************)
(* Properties of a worker's processing (checked under WorkerSpec)          *)
(***************************************************************************)
\* process_query has returned
ProcessReturned == wpc \in {"w_return", "w_done"}

\* C28: a worker's process_query never raises. When the MCP initialisation
\* failed it returns "Error: Failed to initialize MCP tools", when no tools
\* are configured it returns "Error: No tools available", and an exception
\* raised while the agent is made or runs is turned into the text
\* "Error processing query: ..."; with the audit writes working, the
\* worker's request then ends completed with the returned text as its
\* artifact.
C28_ProcessQueryNeverRaises ==
    /\ [](/\ wpc # "w_escaped"
          /\ ProcessReturned =>
                /\ ~wout.raised
                /\ ~tret[Self] => wout.val = McpFailedMsg
                /\ configured = "no_tools" => wout.val = NoToolsMsg
          /\ (Finished /\ wpc = "w_done" /\ exc = NoText) =>
                /\ Outcome.state = COMPLETED
                /\ Outcome.artifacts = TextArtifacts(wout.val))
    /\ [][(wpc = "w_except" /\ wpc' # "w_except") =>
            /\ wpc' = "w_return"
            /\ wout' = Returned(<<"Error processing query: ">> \o wout.val)]_vars

\* handle_task returned a completed task whose artifact is the error text
\* made from an exception of the reasoning loop
C28_Witness ==
    /\ hpc = "returned"
    /\ wpc = "w_done"
    /\ steps > 0
    /\ task.status.state = COMPLETED
    /\ task.artifacts = TextArtifacts(<<"Error processing query: ", "boom">>)

\* C29: the reasoning loop of a worker runs at most recursion_limit (25)
\* steps, and process_query, once called, returns a text, also when the
\* reasoning step proposes capability invocations every time.
C29_LoopEndsWithinTheCeiling ==
    /\ [](steps <= recursion_limit)
    /\ [](ProcessReturned => ~wout.raised)
    /\ (wpc = "w_run") ~> (wpc = "w_return")

\* the loop ran all its steps and process_query returned the error text
C29_Witness ==
    /\ wpc = "w_return"
    /\ steps = recursion_limit
    /\ wout = Returned(<<"Error processing query: ">> \o GraphRecursionErrorMsg)

(***************************************************************************)
(* Properties of the two handlers of a request (checked under TaskSpec)    *)
(***************************************************************************)
\* what the processing function did, as an outcome
ProcOutcomeOf(po) == [raised |-> po.kind = "raise", val |-> po.val]

\* the handle_task of the request came to the outcome HandleTaskOutcome gives
HandleTaskOutcomeIsWhatHandleTaskDoes ==
    (via = "handle_task" /\ hpc = "returned" /\ exc # IOErrorMsg) =>
        \A o \in IF procOut = NoOutcome THEN ProcOutcomes ELSE {ProcOutcomeOf(procOut)} :
            [state |-> task.status.state, artifacts |-> task.artifacts]
                = HandleTaskOutcome(req, o)

\* C34: for every inbound message and every outcome of the processing
\* function, the POST /task route of the manager and of a worker answers
\* with the state and the artifacts handle_task ends with for that message.
C34_RouteYieldsWhatHandleTaskYields ==
    (via = "endpoint" /\ hpc = "responded" /\ req.shape # "body_not_object") =>
        \A o \in IF procOut = NoOutcome THEN ProcOutcomes ELSE {ProcOutcomeOf(procOut)} :
            [state |-> resp.state, artifacts |-> resp.artifacts]
                = HandleTaskOutcome(AsTaskMessage(req), o)

\* C40: the id of every POST /task response is the id the request carried
\* (empty when it carried none), in the completed, the input_required and
\* the failed outcome.
C40_ResponseEchoesTheRequestId ==
    (via = "endpoint" /\ hpc = "responded" /\ req.shape # "body_not_object") =>
        resp.id = req.id

(***************************************************************************)
(* Properties of both kinds of process (checked under AgentsSpec)          *)
(***************************************************************************)
\* nothing of the processing function has run for the request in hand
ProcessingNotInvoked ==
    /\ procOut = NoOutcome
    /\ apc = "a_idle" /\ rpc = "r_idle" /\ invoked = <<>>
    /\ dpc = "d_idle" /\ calls = <<>>
    /\ wpc = "w_idle" /\ tpc[Self] = "e_idle"

C31_SimpleQueryCallsAtMostOneWorker ==
    (apc # "a_idle" /\ rpc # "r_idle" /\ complexity = Returned(SIMPLE)) =>
        Len(calls) <= 1

\* the audit events of a request that runs through, in order
PipelineEvents ==
    << "QUERY_RECEIVED", "COMPLEXITY_CLASSIFIED", "PLAN_CREATED",
       "EXECUTION_COMPLETE", "SYNTHESIS_COMPLETE" >>

\* how far analyze_legal_query has come
StageRank ==
    [ a_idle |-> 0, a_log_received |-> 1, a_classify |-> 2, a_log_classified |-> 3,
      a_plan |-> 4, a_log_plan |-> 5, a_execute |-> 6, a_executing |-> 7,
      a_log_execution |-> 8, a_synthesize |-> 9, a_log_synthesis |-> 10,
      a_except |-> 11, a_returned |-> 12, a_escaped |-> 12 ]

C36_OnlyCompletedWorkIsAFinding ==
    rpc = "synthesized" =>
        \A i \in DOMAIN synIn :
            /\ synIn[i].success => synIn[i].result.state = COMPLETED
            /\ Usable(synIn[i]) => synIn[i].result.state = COMPLETED

(***************************************************************************)
(* Further properties of dispatch (checked under DispatchSpec)             *)
(***************************************************************************)
\* C35: every worker call of a dispatch, parallel or sequential, is sent
\* exactly the query the dispatch was given, whatever the earlier calls
\* brought back, and that query does not change while the dispatch runs.
C35_EveryCallCarriesTheQuery ==
    /\ [](\A i \in DOMAIN calls : calls[i].sent = dq)
    /\ [][dpc # "d_idle" => dq' = dq]_vars

\* a sequential dispatch whose second call was sent the query after the
\* first call had brought back a result
C35_Witness ==
    /\ dpc = "d_done"
    /\ ~plan.parallel
    /\ Len(calls) = 2
    /\ results[1].success
    /\ calls[2].sent = dq
    /\ dq = <<"q2">>

(***************************************************************************)
(* Further properties of a worker process                                  *)
(***************************************************************************)
\* another request thread is between making the client and having its tools
InitialisationInProgress ==
    \E t \in Threads \ {Self} : tpc[t] = "e_fetch"

\* C37 (checked under WorkerSpec): a request that runs while another
\* request's initialisation is in progress does not go on with a client
\* whose tools are not there yet, and no request has answered "Error: No
\* tools available" when the tools have been fetched.
C37_NoHalfInitialisedHandle ==
    /\ (wpc = "w_ensure" /\ tpc[Self] = "e_done" /\ tret[Self]
            /\ mcp_client = "client" /\ tools = <<>>) =>
          ~InitialisationInProgress
    /\ (ProcessReturned /\ wout = Returned(NoToolsMsg)) => tools = <<>>

\* C38 (checked under McpSpec): a call of ensure_mcp_initialized made when
\* the tools are configured and have never been fetched, with no other
\* call in progress, goes on to initialise the client instead of returning
\* at once: a failed initialisation is tried again by the next request.
C38_FailedInitialisationIsRetried ==
    [][\A t \in Threads :
         (/\ tpc[t] = "e_check" /\ tpc'[t] # "e_check"
          /\ configured = "tools" /\ fetched = 0
          /\ \A u \in Threads \ {t} : tpc[u] \in {"e_idle", "e_done"})
         => tpc'[t] = "e_config"]_vars

(***************************************************************************)
(* Properties of concurrent requests (checked under ConcurrentSpec)        *)
(***************************************************************************)
\* request i has come past the position p of its thread
Past(i, p) ==
    LET rank == [ c_new |-> 0, c_classify |-> 1, c_plan |-> 2, c_execute |-> 3,
                  c_synthesize |-> 4, c_respond |-> 5, c_done |-> 6 ]
    IN rank[creq[i].pc] > rank[p]

====
